---- MODULE Spec2Model ----
(***************************************************************************)
(* Model of the end-to-end encryption key lifecycle of MessagingService    *)
(* (packages/core/src/services/messaging.ts) together with the crypto      *)
(* helpers of packages/core/src/encryption/e2e.ts and the collaborators it *)
(* talks to: the KeyStorage (Local Key Store) and the optional E2E methods *)
(* of the MessagingAdapter (Key Directory).                                *)
(*                                                                         *)
(* One service instance is modelled.  Every async method is cut at its     *)
(* awaits: the step that issues a collaborator call evaluates the call's   *)
(* arguments (in particular this.currentUserId) and the next step performs *)
(* the collaborator's effect and runs the continuation up to the next      *)
(* await.  setCurrentUser is synchronous and may run between any two steps *)
(* of a method in flight.                                                  *)
(***************************************************************************)
EXTENDS Integers, Sequences, FiniteSets, TLC

\* ------------------------------------------------------------------ bounds

\* Number of key pairs nacl.box.keyPair() hands out in one behaviour.
MaxKeys == 2

\* Number of key pairs the encryption round trips are tried with.
MaxParties == 3

\* Number of messages the adapter stores in one behaviour.
MaxMessages == 1

\* Number of messages in the conversations that are listed.
MaxInbox == 2

\* Number of HTTP requests the API server handles in one behaviour.
MaxRequests == 2

\* ------------------------------------------------------------- value sets

Users == {"alice", "bob"}

\* this.currentUserId = null
NoUser == "null"

\* null for object-valued optionals
Null == <<>>

\* The optional E2E methods of a MessagingAdapter.
AdapterE2EMethods ==
    {"storePublicKey", "getPublicKey", "storeKeyBackup", "getKeyBackup",
     "recordPinAttempt"}

\* PINs are strings, modelled as sequences of one-character strings.
Digits == {"0", "1", "2", "3", "4", "5", "6", "7", "8", "9"}

Pin12345 == <<"1", "2", "3", "4", "5">>
PinAbcdef == <<"a", "b", "c", "d", "e", "f">>
Pin1234567 == <<"1", "2", "3", "4", "5", "6", "7">>
Pin000000 == <<"0", "0", "0", "0", "0", "0">>
Pin123456 == <<"1", "2", "3", "4", "5", "6">>

InvalidPins == {Pin12345, PinAbcdef, Pin1234567}

\* The PINs setupEncryption and restoreEncryption are called with: backups
\* are made under "000000", and "123456" is the well-formed wrong PIN.
SetupPins == InvalidPins \cup {Pin000000}
RestorePins == InvalidPins \cup {Pin000000, Pin123456}

\* The adapters a service is constructed with.  The adapters of this
\* repository implement every optional method; the others lack the PIN attempt
\* record, the backup methods, the public-key methods, or all of them.
FullAdapter == AdapterE2EMethods
PlainAdapter == {}
AdapterProfiles ==
    {FullAdapter,
     PlainAdapter,
     FullAdapter \ {"recordPinAttempt"},
     {"storePublicKey", "getPublicKey"},
     {"storeKeyBackup", "getKeyBackup", "recordPinAttempt"}}

\* The (e2eEnabled, adapter) pairs a service is constructed with.
Deployments ==
    ({TRUE} \X AdapterProfiles) \cup ({FALSE} \X {FullAdapter, PlainAdapter})

\* nacl.randomBytes never repeats: the salt and the nonce of the n-th backup.
randomSalt(n) == [salt |-> n]
randomNonce(n) == [nonce |-> n]

PinLength == 6

\* ------------------------------------------------------------ CryptoEngine

\* nacl.box.keyPair(): the n-th fresh key pair.
generateKeyPair(n) == [publicKey |-> [pk |-> n], secretKey |-> [sk |-> n]]

\* nacl.box.keyPair.fromSecretKey(privateKey).publicKey
\* Mutant: the public key does not depend on the secret key.
publicKeyFromPrivateNotRecomputed(privateKey) == [pk |-> 0]

publicKeyFromPrivate(privateKey) == [pk |-> privateKey.sk]

bytesToBase64(bytes) == [b64 |-> bytes]

base64ToBytes(base64) == base64.b64

\* PBKDF2-HMAC-SHA-256: a deterministic function of (pin, salt).
deriveKeyFromPin(pin, salt) == [pin |-> pin, salt |-> salt]

\* What a try block evaluates to when it throws.
Thrown == [thrown |-> TRUE]

\* nacl.secretbox / nacl.secretbox.open: authenticated symmetric encryption.
secretbox(msg, nonce, key) == [nonce |-> nonce, key |-> key, msg |-> msg]

\* Mutant: the box opens under any key.
secretboxOpenAnyKey(box, nonce, key) ==
    IF box.nonce = nonce THEN box.msg ELSE Null

secretboxOpen(box, nonce, key) ==
    IF box.nonce = nonce /\ box.key = key THEN box.msg ELSE Null

\* Mutant: the nonce is written at offset 0, over the salt.
encryptPrivateKeyWithPinSaltOverwritten(secretKey, pin, salt, nonce) ==
    LET derivedKey == deriveKeyFromPin(pin, salt)
        encrypted == secretbox(secretKey, nonce, derivedKey)
    IN  bytesToBase64([salt |-> nonce, nonce |-> nonce, encrypted |-> encrypted])

\* base64 of salt || nonce || secretbox(secretKey)
encryptPrivateKeyWithPin(secretKey, pin, salt, nonce) ==
    LET derivedKey == deriveKeyFromPin(pin, salt)
        encrypted == secretbox(secretKey, nonce, derivedKey)
    IN  bytesToBase64([salt |-> salt, nonce |-> nonce, encrypted |-> encrypted])

\* The body of the try block of decryptPrivateKeyWithPin: the key, null, or
\* Thrown (decodeBase64 on a string that is not base64).
decryptPrivateKeyWithPinTry(encryptedBase64, pin) ==
    IF DOMAIN encryptedBase64 # {"b64"} THEN Thrown
    ELSE LET combined == base64ToBytes(encryptedBase64)
             derivedKey == deriveKeyFromPin(pin, combined.salt)
         IN  secretboxOpen(combined.encrypted, combined.nonce, derivedKey)

\* Mutant: the key is derived from the bytes after the salt.
decryptPrivateKeyWithPinSaltPastOffset(encryptedBase64, pin) ==
    LET combined == base64ToBytes(encryptedBase64)
        derivedKey == deriveKeyFromPin(pin, combined.nonce)
    IN  secretboxOpen(combined.encrypted, combined.nonce, derivedKey)

\* try { ... } catch { return null }
decryptPrivateKeyWithPin(encryptedBase64, pin) ==
    LET decrypted == decryptPrivateKeyWithPinTry(encryptedBase64, pin)
    IN  IF decrypted = Thrown THEN Null ELSE decrypted

\* Strings handed to and returned by the message encryption are [text |-> s],
\* so that the empty string differs from null.
Text(s) == [text |-> s]

\* tweetnacl-util: string <-> UTF-8 bytes
decodeUTF8(plaintext) == [utf8 |-> plaintext.text]

encodeUTF8(bytes) == Text(bytes.utf8)

\* tweetnacl-util: bytes <-> base64 string; decodeBase64 throws on a string
\* that is not base64.
encodeBase64(bytes) == [b64 |-> bytes]

ValidBase64(string) == DOMAIN string = {"b64"}

decodeBase64(string) == string.b64

\* nacl.box.nonceLength, in blocks of the byte sequence.
NonceLength == 1

\* X25519: the key shared by one party's public and the other's secret key.
sharedKey(publicKey, secretKey) == {publicKey.pk, secretKey.sk}

\* nacl.box: the authenticator over (key, nonce, message), then the message.
box(msg, nonce, publicKey, secretKey) ==
    [tag |-> [key |-> sharedKey(publicKey, secretKey), nonce |-> nonce, msg |-> msg],
     body |-> msg]

\* nacl.box.open on the bytes after the nonce: null when they are too short
\* or the authenticator does not verify.
boxOpen(ciphertext, nonce, publicKey, secretKey) ==
    IF Len(ciphertext) # 1 THEN Null
    ELSE LET c == ciphertext[1]
         IN  IF c.tag = [key |-> sharedKey(publicKey, secretKey), nonce |-> nonce,
                         msg |-> c.body]
             THEN c.body
             ELSE Null

\* Mutant: the nonce in front of the ciphertext is not the one used.
encryptMessageOtherNonce(plaintext, recipientPublicKey, senderSecretKey, nonce) ==
    LET messageUint8 == decodeUTF8(plaintext)
        encrypted == box(messageUint8, nonce, recipientPublicKey, senderSecretKey)
        fullMessage == <<randomNonce(0)>> \o <<encrypted>>
    IN  encodeBase64(fullMessage)

\* base64 of nonce || nacl.box(plaintext)
encryptMessage(plaintext, recipientPublicKey, senderSecretKey, nonce) ==
    LET messageUint8 == decodeUTF8(plaintext)
        encrypted == box(messageUint8, nonce, recipientPublicKey, senderSecretKey)
        fullMessage == <<nonce>> \o <<encrypted>>
    IN  encodeBase64(fullMessage)

\* The body of the try block of decryptMessage: the text, null, or Thrown
\* (decodeBase64 on a string that is not base64, nacl on a nonce of the
\* wrong size).
decryptMessageTry(ciphertextBase64, senderPublicKey, recipientSecretKey) ==
    IF ~ValidBase64(ciphertextBase64) THEN Thrown
    ELSE LET fullMessage == decodeBase64(ciphertextBase64)
             n == IF Len(fullMessage) < NonceLength THEN Len(fullMessage) ELSE NonceLength
             nonce == SubSeq(fullMessage, 1, n)
             ciphertext == SubSeq(fullMessage, n + 1, Len(fullMessage))
         IN  IF Len(nonce) # NonceLength THEN Thrown
             ELSE LET decrypted == boxOpen(ciphertext, nonce[1], senderPublicKey,
                                           recipientSecretKey)
                  IN  IF decrypted = Null THEN Null ELSE encodeUTF8(decrypted)

\* Mutant: no try/catch around the decryption.
decryptMessageUncaught(ciphertextBase64, senderPublicKey, recipientSecretKey) ==
    decryptMessageTry(ciphertextBase64, senderPublicKey, recipientSecretKey)

\* try { ... } catch { return null }
decryptMessage(ciphertextBase64, senderPublicKey, recipientSecretKey) ==
    LET result == decryptMessageTry(ciphertextBase64, senderPublicKey, recipientSecretKey)
    IN  IF result = Thrown THEN Null ELSE result

\* Mutant: the sender's secret key is sent along as the sender's copy.
createEncryptedContentWithSecretKey(plaintext, senderSecretKey, senderPublicKey, recipientPublicKey, recipientId, nonceR, nonceS) ==
    [s |-> bytesToBase64(senderSecretKey),
     r |-> encryptMessage(plaintext, recipientPublicKey, senderSecretKey, nonceR),
     recipientId |-> recipientId]

\* Mutant: the recipient's envelope is stored as the sender's copy too.
createEncryptedContentOneEnvelope(plaintext, senderSecretKey, senderPublicKey, recipientPublicKey, recipientId, nonceR, nonceS) ==
    LET forRecipient == encryptMessage(plaintext, recipientPublicKey, senderSecretKey, nonceR)
    IN  [s |-> forRecipient, r |-> forRecipient, recipientId |-> recipientId]

\* Mutant: the sender's copy is encrypted for the recipient as well.
createEncryptedContentBothForRecipient(plaintext, senderSecretKey, senderPublicKey, recipientPublicKey, recipientId, nonceR, nonceS) ==
    [s |-> encryptMessage(plaintext, recipientPublicKey, senderSecretKey, nonceS),
     r |-> encryptMessage(plaintext, recipientPublicKey, senderSecretKey, nonceR),
     recipientId |-> recipientId]

\* {s: forSender, r: forRecipient, recipientId}
createEncryptedContent(plaintext, senderSecretKey, senderPublicKey, recipientPublicKey, recipientId, nonceR, nonceS) ==
    [s |-> encryptMessage(plaintext, senderPublicKey, senderSecretKey, nonceS),
     r |-> encryptMessage(plaintext, recipientPublicKey, senderSecretKey, nonceR),
     recipientId |-> recipientId]

\* JSON.stringify of an EncryptedContent
JSONstringify(encrypted) == [json |-> encrypted]

\* The truth value of an optional string: undefined, null and "" are falsy.
Truthy(string) == string # Null /\ string # Text("") /\ string # encodeBase64(<<>>)

\* JSON.parse(content) with truthy s and r, or null; content that is not
\* the JSON of an object makes JSON.parse throw, which is caught.
parseEncryptedContent(content) ==
    IF DOMAIN content # {"json"} THEN Null
    ELSE LET parsed == content.json
         IN  IF Truthy(parsed.s) /\ Truthy(parsed.r) THEN parsed ELSE Null

\* Mutant: content that is no dual envelope is not decoded.
decryptMessageContentDualOnly(content, senderId, userId, senderPublicKey, currentUserSecretKey) ==
    LET encrypted == parseEncryptedContent(content)
    IN  IF encrypted # Null
        THEN LET isSender == senderId = userId
                 ciphertext == IF isSender THEN encrypted.s ELSE encrypted.r
             IN  decryptMessage(ciphertext, senderPublicKey, currentUserSecretKey)
        ELSE Null

\* Mutant: when the selected field does not open, the other one is tried.
decryptMessageContentEitherField(content, senderId, userId, senderPublicKey, currentUserSecretKey) ==
    LET encrypted == parseEncryptedContent(content)
    IN  IF encrypted # Null
        THEN LET isSender == senderId = userId
                 ciphertext == IF isSender THEN encrypted.s ELSE encrypted.r
                 other == IF isSender THEN encrypted.r ELSE encrypted.s
                 decrypted == decryptMessage(ciphertext, senderPublicKey, currentUserSecretKey)
             IN  IF decrypted # Null THEN decrypted
                 ELSE decryptMessage(other, senderPublicKey, currentUserSecretKey)
        ELSE decryptMessage(content, senderPublicKey, currentUserSecretKey)

decryptMessageContent(content, senderId, userId, senderPublicKey, currentUserSecretKey) ==
    LET encrypted == parseEncryptedContent(content)
    IN  IF encrypted # Null
        THEN LET isSender == senderId = userId
                 ciphertext == IF isSender THEN encrypted.s ELSE encrypted.r
             IN  decryptMessage(ciphertext, senderPublicKey, currentUserSecretKey)
        ELSE decryptMessage(content, senderPublicKey, currentUserSecretKey)

\* The conversations of the adapter: a DM of the two users, a group with a
\* third participant, and an ID the adapter does not know.
ConversationIds == {"dm", "group", "gone"}

getConversation(id) ==
    IF id = "dm" THEN [id |-> id, participants |-> {"alice", "bob"}]
    ELSE IF id = "group" THEN [id |-> id, participants |-> {"alice", "bob", "carol"}]
    ELSE Null

\* The message bodies sendMessage is called with.
MessageBodies == {Text("hi")}

\* Mutant: only the length is tested.
ValidPinLengthOnly(pin) == Len(pin) = PinLength

\* pin.length !== 6 || !/^\d+$/.test(pin)  is the rejection test.
ValidPin(pin) ==
    /\ Len(pin) = PinLength
    /\ Len(pin) > 0
    /\ \A i \in 1..Len(pin) : pin[i] \in Digits

\* ------------------------------------------------------------------- state

VARIABLES
    e2eEnabled,      \* MessagingService.e2eEnabled
    adapterMethods,  \* which optional E2E methods this.adapter implements
    currentUserId,   \* MessagingService.currentUserId
    keyPair,         \* MessagingService.keyPair
    publicKeyCache,  \* MessagingService.publicKeyCache
    keyStorage,      \* KeyStorage: userId -> StoredKeyPair | null
    publicKeys,      \* Key Directory: userId -> base64 public key | null
    keyBackups,      \* Key Directory: userId -> base64 backup blob | null
    keyPairFor,      \* the user whose key material this.keyPair was obtained as
    nextKey,         \* how many key pairs have been generated
    call,            \* the service method in flight
    trace,           \* crypto and collaborator calls made by the method in flight
    interfered,      \* the environment or setCurrentUser acted during the method in flight
    firstDevice,     \* the instance setupEncryption completed on, once a second one is in use
    roundTrip,       \* one trial of encryptMessage and decryptMessage
    dualTrip,        \* one trial of createEncryptedContent and decryptMessageContent
    pinTrip,         \* one trial of encryptPrivateKeyWithPin and decryptPrivateKeyWithPin
    messages,        \* the adapter's messages, in the order they were stored
    requests,        \* the HTTP requests the API server has in flight
    subscription,    \* "active" while the onNewMessage wrapper is in the adapter's subscriber set
    emitted,         \* how many messages the adapter has handed to the wrapper
    deliveries,      \* wrapper invocations waiting for decryptMessage
    callbacks        \* the messages the caller's callback received, in order

vars == <<e2eEnabled, adapterMethods, currentUserId, keyPair, publicKeyCache,
          keyPairFor, keyStorage, publicKeys, keyBackups, nextKey, call, trace,
          interfered, firstDevice, roundTrip, dualTrip, pinTrip, messages,
          requests, subscription, emitted, deliveries, callbacks>>

serviceState == <<currentUserId, keyPair, keyPairFor, publicKeyCache>>
collaboratorState == <<keyStorage, publicKeys, keyBackups>>
randomState == <<nextKey>>
config == <<e2eEnabled, adapterMethods>>
deviceState == <<firstDevice>>
cryptoState == <<roundTrip, dualTrip, pinTrip>>
messageState == <<messages>>
apiState == <<requests>>
realtimeState == <<subscription, emitted, deliveries, callbacks>>

Idle ==
    [op |-> "none", pc |-> "idle", user |-> NoUser, arg |-> NoUser, pin |-> <<>>,
     keyPair |-> Null, blob |-> Null, secretKey |-> Null,
     rateLimited |-> FALSE, result |-> "none", value |-> Null, error |-> "none",
     conversationId |-> "none", content |-> Null, stored |-> Null]

Init ==
    /\ \E d \in Deployments :
         /\ e2eEnabled = d[1]
         /\ adapterMethods = d[2]
    /\ currentUserId = NoUser
    /\ keyPair = Null
    /\ keyPairFor = NoUser
    /\ publicKeyCache = [u \in Users |-> Null]
    /\ keyStorage = [u \in Users |-> Null]
    /\ publicKeys = [u \in Users |-> Null]
    /\ keyBackups = [u \in Users |-> Null]
    /\ nextKey = 0
    /\ call = Idle
    /\ trace = <<>>
    /\ interfered = FALSE
    /\ firstDevice = Null
    /\ roundTrip = Null
    /\ dualTrip = Null
    /\ pinTrip = Null
    /\ messages = <<>>
    /\ requests = <<>>
    /\ subscription = "none"
    /\ emitted = 0
    /\ deliveries = {}
    /\ callbacks = <<>>

\* ----------------------------------------------------------------- helpers

Has(method) == method \in adapterMethods

\* One entry of the trace: the function called and, for recordPinAttempt, its
\* success argument.  The userId argument of a pending call is call.arg.
Did(fn, success) == [fn |-> fn, success |-> success]

Returned(c, result) == [c EXCEPT !.pc = "done", !.result = result]

Threw(c, error) == [c EXCEPT !.pc = "done", !.error = error]

\* The method in flight issues the call fn(userId, ...) and awaits it.
Await(c, fn, userId) == [c EXCEPT !.pc = fn, !.arg = userId]

\* A method starts; call.user records the user it is started for.
Started(op) == [Idle EXCEPT !.op = op, !.user = currentUserId]

\* call' and trace' of a step that ends awaiting fn(userId, ...).
Issue(c, fn, userId, success) ==
    /\ call' = Await(c, fn, userId)
    /\ trace' = Append(trace, Did(fn, success))

\* call' and trace' of a step that returns or throws.
Finish(c) ==
    /\ call' = c
    /\ trace' = trace

InFlight == call.pc \notin {"idle", "done"}

\* A new method may start only when none is in flight.
CanStart == call.pc = "idle"

\* setCurrentUser and the environment do not act in the instant a method returns.
CanInterleave == call.pc # "done"

\* --------------------------------------------------------- setCurrentUser

\* Mutant: the public-key cache survives the switch.
SetCurrentUserKeepsCache(userId) ==
    /\ CanInterleave
    /\ IF currentUserId # userId
       THEN /\ currentUserId' = userId
            /\ keyPair' = Null
            /\ keyPairFor' = NoUser
            /\ UNCHANGED publicKeyCache
            /\ interfered' = (interfered \/ InFlight)
       ELSE UNCHANGED <<serviceState, interfered>>
    /\ UNCHANGED <<config, apiState, realtimeState, messageState, cryptoState, deviceState, collaboratorState, randomState, call, trace>>

SetCurrentUser(userId) ==
    /\ CanInterleave
    /\ IF currentUserId # userId
       THEN /\ currentUserId' = userId
            /\ keyPair' = Null
            /\ keyPairFor' = NoUser
            /\ publicKeyCache' = [u \in Users |-> Null]
            /\ interfered' = (interfered \/ InFlight)
       ELSE UNCHANGED <<serviceState, interfered>>
    /\ UNCHANGED <<config, apiState, realtimeState, messageState, cryptoState, deviceState, collaboratorState, randomState, call, trace>>

\* ---------------------------------------------------- getEncryptionStatus

\* Mutant: the test of the backup is inverted.
StatusWithLocalKeysInverted(encryptedKey) ==
    IF encryptedKey = Null THEN "ready" ELSE "needs_pin_setup"

\* encryptedKey ? 'ready' : 'needs_pin_setup'
StatusWithLocalKeys(encryptedKey) ==
    IF encryptedKey # Null THEN "ready" ELSE "needs_pin_setup"

\* The adapter has no getKeyBackup and local keys exist.
StatusWithLocalKeysNoBackupMethod == "ready"

\* Mutant: the active user is tested before e2eEnabled.
StatusEntryUserFirst ==
    IF currentUserId = NoUser THEN "error"
    ELSE IF ~e2eEnabled THEN "ready"
    ELSE "loadKeyPair"

\* The two early returns of getEncryptionStatus, or "loadKeyPair" to go on.
StatusEntry ==
    IF ~e2eEnabled THEN "ready"
    ELSE IF currentUserId = NoUser THEN "error"
    ELSE "loadKeyPair"

GetEncryptionStatus ==
    /\ CanStart
    /\ LET c == Started("getEncryptionStatus")
       IN  IF StatusEntry = "loadKeyPair"
           THEN Issue(c, "loadKeyPair", currentUserId, "n/a")
           ELSE Finish(Returned(c, StatusEntry))
    /\ interfered' = FALSE
    /\ UNCHANGED <<config, apiState, realtimeState, messageState, cryptoState, deviceState, serviceState, collaboratorState, randomState>>

\* After "No local keys - check server" and a missing or empty backup.
StatusCheckPublicKey(c) ==
    IF Has("getPublicKey")
    THEN Issue(c, "getPublicKey", currentUserId, "n/a")
    ELSE Finish(Returned(c, "needs_setup"))

\* Mutant: the status query loads the keys it found, as initializeEncryption does.
StatusLoadsLocalKeys(localKeys) ==
    /\ keyPair' = IF localKeys # Null
                  THEN [publicKey |-> base64ToBytes(localKeys.publicKey),
                        secretKey |-> base64ToBytes(localKeys.secretKey)]
                  ELSE keyPair
    /\ UNCHANGED <<currentUserId, keyPairFor, publicKeyCache>>

\* What getEncryptionStatus does to the service with the loaded keys: nothing.
StatusKeepsLocalKeys(localKeys) == UNCHANGED serviceState

StatusLoaded ==
    /\ call.op = "getEncryptionStatus"
    /\ call.pc = "loadKeyPair"
    /\ StatusKeepsLocalKeys(keyStorage[call.arg])
    /\ \E ok \in BOOLEAN :
         IF ~ok THEN Finish(Threw(call, "storage error"))
         ELSE LET localKeys == keyStorage[call.arg]
                  c == [call EXCEPT !.keyPair = localKeys]
              IN  IF localKeys # Null
                  THEN IF Has("getKeyBackup")
                       THEN Issue(c, "getKeyBackup", currentUserId, "n/a")
                       ELSE Finish(Returned(c, StatusWithLocalKeysNoBackupMethod))
                  ELSE IF Has("getKeyBackup")
                       THEN Issue(c, "getKeyBackup", currentUserId, "n/a")
                       ELSE StatusCheckPublicKey(c)
    /\ UNCHANGED <<config, apiState, realtimeState, messageState, cryptoState, deviceState, collaboratorState, randomState, interfered>>

StatusGotBackup ==
    /\ call.op = "getEncryptionStatus"
    /\ call.pc = "getKeyBackup"
    /\ \E ok \in BOOLEAN :
         IF ~ok THEN Finish(Threw(call, "adapter error"))
         ELSE LET encryptedKey == keyBackups[call.arg]
                  c == [call EXCEPT !.blob = encryptedKey]
              IN  IF call.keyPair # Null
                  THEN Finish(Returned(c, StatusWithLocalKeys(encryptedKey)))
                  ELSE IF encryptedKey # Null
                       THEN Finish(Returned(c, "has_backup"))
                       ELSE StatusCheckPublicKey(c)
    /\ UNCHANGED <<config, apiState, realtimeState, messageState, cryptoState, deviceState, serviceState, collaboratorState, randomState, interfered>>

StatusGotPublicKey ==
    /\ call.op = "getEncryptionStatus"
    /\ call.pc = "getPublicKey"
    /\ \E ok \in BOOLEAN :
         IF ~ok THEN Finish(Threw(call, "adapter error"))
         ELSE LET publicKey == publicKeys[call.arg]
                  c == [call EXCEPT !.value = publicKey]
              IN  IF publicKey # Null
                  THEN Finish(Returned(c, "needs_regeneration"))
                  ELSE Finish(Returned(c, "needs_setup"))
    /\ UNCHANGED <<config, apiState, realtimeState, messageState, cryptoState, deviceState, serviceState, collaboratorState, randomState, interfered>>

\* --------------------------------------------------- initializeEncryption

InitializeEncryption ==
    /\ CanStart
    /\ LET c == Started("initializeEncryption")
       IN  IF ~e2eEnabled THEN Finish(Returned(c, "true"))
           ELSE IF currentUserId = NoUser THEN Finish(Returned(c, "false"))
           ELSE Issue(c, "loadKeyPair", currentUserId, "n/a")
    /\ interfered' = FALSE
    /\ UNCHANGED <<config, apiState, realtimeState, messageState, cryptoState, deviceState, serviceState, collaboratorState, randomState>>

InitializeLoaded ==
    /\ call.op = "initializeEncryption"
    /\ call.pc = "loadKeyPair"
    /\ \E ok \in BOOLEAN :
         IF ~ok
         THEN /\ Finish(Threw(call, "storage error"))
              /\ UNCHANGED <<keyPair, keyPairFor>>
         ELSE LET localKeys == keyStorage[call.arg]
              IN  IF localKeys # Null
                  THEN /\ keyPair' = [publicKey |-> base64ToBytes(localKeys.publicKey),
                                      secretKey |-> base64ToBytes(localKeys.secretKey)]
                       /\ keyPairFor' = call.user
                       /\ Finish(Returned(call, "true"))
                  ELSE /\ UNCHANGED <<keyPair, keyPairFor>>
                       /\ Finish(Returned(call, "false"))
    /\ UNCHANGED <<config, apiState, realtimeState, messageState, cryptoState, deviceState, currentUserId, publicKeyCache, collaboratorState,
                   randomState, interfered>>

\* -------------------------------------------------------- setupEncryption

\* The collaborator calls of setupEncryption, in order; each is skipped when
\* the adapter does not implement it.
SetupStoreBackupOrLocal(c) ==
    IF Has("storeKeyBackup")
    THEN Issue(c, "storeKeyBackup", currentUserId, "n/a")
    ELSE Issue(c, "storeKeyPair", currentUserId, "n/a")

SetupStorePublicKeyOrNext(c) ==
    IF Has("storePublicKey")
    THEN Issue(c, "storePublicKey", currentUserId, "n/a")
    ELSE SetupStoreBackupOrLocal(c)

SetupEncryption(pin) ==
    /\ CanStart
    /\ LET c == [Started("setupEncryption") EXCEPT !.pin = pin]
       IN  IF currentUserId = NoUser
           THEN /\ Finish(Returned(c, "false"))
                /\ UNCHANGED randomState
           ELSE IF ~ValidPin(pin)
           THEN /\ Finish(Threw(c, "PIN must be exactly 6 digits"))
                /\ UNCHANGED randomState
           ELSE /\ nextKey < MaxKeys
                /\ nextKey' = nextKey + 1
                /\ call' = Await([c EXCEPT !.keyPair = generateKeyPair(nextKey + 1)],
                                 "encryptPrivateKeyWithPin", NoUser)
                /\ trace' = <<Did("generateKeyPair", "n/a"),
                              Did("encryptPrivateKeyWithPin", "n/a")>>
    /\ interfered' = FALSE
    /\ UNCHANGED <<config, apiState, realtimeState, messageState, cryptoState, deviceState, serviceState, collaboratorState>>

SetupEncrypted ==
    /\ call.op = "setupEncryption"
    /\ call.pc = "encryptPrivateKeyWithPin"
    /\ LET encryptedBackup ==
               encryptPrivateKeyWithPin(call.keyPair.secretKey, call.pin,
                                        randomSalt(nextKey), randomNonce(nextKey))
       IN  SetupStorePublicKeyOrNext([call EXCEPT !.blob = encryptedBackup])
    /\ UNCHANGED <<config, apiState, realtimeState, messageState, cryptoState, deviceState, serviceState, collaboratorState, randomState, interfered>>

SetupStoredPublicKey ==
    /\ call.op = "setupEncryption"
    /\ call.pc = "storePublicKey"
    /\ \E ok \in BOOLEAN :
         IF ~ok
         THEN /\ Finish(Threw(call, "adapter error"))
              /\ UNCHANGED publicKeys
         ELSE /\ publicKeys' =
                    [publicKeys EXCEPT ![call.arg] = bytesToBase64(call.keyPair.publicKey)]
              /\ SetupStoreBackupOrLocal(call)
    /\ UNCHANGED <<config, apiState, realtimeState, messageState, cryptoState, deviceState, serviceState, keyStorage, keyBackups, randomState, interfered>>

SetupStoredBackup ==
    /\ call.op = "setupEncryption"
    /\ call.pc = "storeKeyBackup"
    /\ \E ok \in BOOLEAN :
         IF ~ok
         THEN /\ Finish(Threw(call, "adapter error"))
              /\ UNCHANGED keyBackups
         ELSE /\ keyBackups' = [keyBackups EXCEPT ![call.arg] = call.blob]
              /\ Issue(call, "storeKeyPair", currentUserId, "n/a")
    /\ UNCHANGED <<config, apiState, realtimeState, messageState, cryptoState, deviceState, serviceState, keyStorage, publicKeys, randomState, interfered>>

\* Mutant: the stored key pair is not taken into memory.
SetupStoredLocalNotLoaded ==
    /\ call.op = "setupEncryption"
    /\ call.pc = "storeKeyPair"
    /\ \E ok \in BOOLEAN :
         IF ~ok
         THEN /\ Finish(Threw(call, "storage error"))
              /\ UNCHANGED <<keyStorage, keyPair, keyPairFor>>
         ELSE /\ keyStorage' =
                    [keyStorage EXCEPT ![call.arg] =
                        [publicKey |-> bytesToBase64(call.keyPair.publicKey),
                         secretKey |-> bytesToBase64(call.keyPair.secretKey)]]
              /\ UNCHANGED <<keyPair, keyPairFor>>
              /\ Finish(Returned(call, "true"))
    /\ UNCHANGED <<config, apiState, realtimeState, messageState, cryptoState, deviceState, currentUserId, publicKeyCache, publicKeys, keyBackups,
                   randomState, interfered>>

SetupStoredLocal ==
    /\ call.op = "setupEncryption"
    /\ call.pc = "storeKeyPair"
    /\ \E ok \in BOOLEAN :
         IF ~ok
         THEN /\ Finish(Threw(call, "storage error"))
              /\ UNCHANGED <<keyStorage, keyPair, keyPairFor>>
         ELSE /\ keyStorage' =
                    [keyStorage EXCEPT ![call.arg] =
                        [publicKey |-> bytesToBase64(call.keyPair.publicKey),
                         secretKey |-> bytesToBase64(call.keyPair.secretKey)]]
              /\ keyPair' = call.keyPair
              /\ keyPairFor' = call.user
              /\ Finish(Returned(call, "true"))
    /\ UNCHANGED <<config, apiState, realtimeState, messageState, cryptoState, deviceState, currentUserId, publicKeyCache, publicKeys, keyBackups,
                   randomState, interfered>>

\* ------------------------------------------------------ restoreEncryption

\* Mutant: an adapter without getKeyBackup makes the restore return false.
RestoreEncryptionBackupOptional(pin) ==
    /\ CanStart
    /\ LET c == [Started("restoreEncryption") EXCEPT !.pin = pin]
       IN  IF currentUserId = NoUser THEN Finish(Returned(c, "false"))
           ELSE IF ~ValidPin(pin) THEN Finish(Threw(c, "PIN must be exactly 6 digits"))
           ELSE IF ~Has("getKeyBackup") THEN Finish(Returned(c, "false"))
           ELSE Issue(c, "getKeyBackup", currentUserId, "n/a")
    /\ interfered' = FALSE
    /\ UNCHANGED <<config, apiState, realtimeState, messageState, cryptoState, deviceState, serviceState, collaboratorState, randomState>>

RestoreEncryption(pin) ==
    /\ CanStart
    /\ LET c == [Started("restoreEncryption") EXCEPT !.pin = pin]
       IN  IF currentUserId = NoUser THEN Finish(Returned(c, "false"))
           ELSE IF ~ValidPin(pin) THEN Finish(Threw(c, "PIN must be exactly 6 digits"))
           ELSE IF ~Has("getKeyBackup")
           THEN Finish(Threw(c, "Key backup not supported by adapter"))
           ELSE Issue(c, "getKeyBackup", currentUserId, "n/a")
    /\ interfered' = FALSE
    /\ UNCHANGED <<config, apiState, realtimeState, messageState, cryptoState, deviceState, serviceState, collaboratorState, randomState>>

RateLimitedError == "Too many attempts. Please try again in 15 minutes."

\* Mutant: the missing backup is tested before the rate limit.
RestoreWithBackupBlobFirst(c) ==
    IF c.blob = Null THEN Finish(Threw(c, "No backup found on server"))
    ELSE IF c.rateLimited THEN Finish(Threw(c, RateLimitedError))
    ELSE Issue(c, "decryptPrivateKeyWithPin", NoUser, "n/a")

\* const { encryptedKey, rateLimited } = ...: the two checks, then the decryption.
RestoreWithBackup(c) ==
    IF c.rateLimited THEN Finish(Threw(c, RateLimitedError))
    ELSE IF c.blob = Null THEN Finish(Threw(c, "No backup found on server"))
    ELSE Issue(c, "decryptPrivateKeyWithPin", NoUser, "n/a")

\* The adapter answers {encryptedKey, rateLimited}; the rate limit is the
\* directory's own decision.
RestoreGotBackup ==
    /\ call.op = "restoreEncryption"
    /\ call.pc = "getKeyBackup"
    /\ \E ok \in BOOLEAN, rateLimited \in BOOLEAN :
         IF ~ok THEN Finish(Threw(call, "adapter error"))
         ELSE RestoreWithBackup([call EXCEPT !.blob = keyBackups[call.arg],
                                             !.rateLimited = rateLimited])
    /\ UNCHANGED <<config, apiState, realtimeState, messageState, cryptoState, deviceState, serviceState, collaboratorState, randomState, interfered>>

\* What follows recordPinAttempt(userId, true), or the correct PIN when the
\* adapter has no recordPinAttempt: derive the public key and store locally.
RestoreStoreLocal(c) == Issue(c, "storeKeyPair", currentUserId, "n/a")

\* Mutant: the error is thrown without reporting the attempt.
RestoreWrongPinUnreported(c) == Finish(Threw(c, "Incorrect PIN"))

\* if (!secretKey): report the failed attempt when the adapter can, then throw.
RestoreWrongPin(c) ==
    IF Has("recordPinAttempt")
    THEN Issue(c, "recordPinAttempt", currentUserId, "false")
    ELSE Finish(Threw(c, "Incorrect PIN"))

RestoreDecrypted ==
    /\ call.op = "restoreEncryption"
    /\ call.pc = "decryptPrivateKeyWithPin"
    /\ LET secretKey == decryptPrivateKeyWithPin(call.blob, call.pin)
           c == [call EXCEPT !.secretKey = secretKey]
       IN  IF secretKey = Null
           THEN RestoreWrongPin(c)
           ELSE IF Has("recordPinAttempt")
                THEN Issue(c, "recordPinAttempt", currentUserId, "true")
                ELSE RestoreStoreLocal(c)
    /\ UNCHANGED <<config, apiState, realtimeState, messageState, cryptoState, deviceState, serviceState, collaboratorState, randomState, interfered>>

RestoreRecorded ==
    /\ call.op = "restoreEncryption"
    /\ call.pc = "recordPinAttempt"
    /\ \E ok \in BOOLEAN :
         IF ~ok THEN Finish(Threw(call, "adapter error"))
         ELSE IF call.secretKey = Null THEN Finish(Threw(call, "Incorrect PIN"))
         ELSE RestoreStoreLocal(call)
    /\ UNCHANGED <<config, apiState, realtimeState, messageState, cryptoState, deviceState, serviceState, collaboratorState, randomState, interfered>>

\* Mutant: the recovered key pair is loaded into memory but not stored locally.
RestoreStoredLocalMemoryOnly ==
    /\ call.op = "restoreEncryption"
    /\ call.pc = "storeKeyPair"
    /\ \E ok \in BOOLEAN :
         IF ~ok
         THEN /\ Finish(Threw(call, "storage error"))
              /\ UNCHANGED <<keyStorage, keyPair, keyPairFor>>
         ELSE LET publicKey == publicKeyFromPrivate(call.secretKey)
              IN  /\ UNCHANGED keyStorage
                  /\ keyPair' = [publicKey |-> publicKey, secretKey |-> call.secretKey]
                  /\ keyPairFor' = call.user
                  /\ Finish(Returned(call, "true"))
    /\ UNCHANGED <<config, apiState, realtimeState, messageState, cryptoState, deviceState, currentUserId, publicKeyCache, publicKeys, keyBackups,
                   randomState, interfered>>

\* Mutant: this.keyPair is assigned before storeKeyPair is awaited.
RestoreStoredLocalAssignsFirst ==
    /\ call.op = "restoreEncryption"
    /\ call.pc = "storeKeyPair"
    /\ \E ok \in BOOLEAN :
         IF ~ok
         THEN /\ Finish(Threw(call, "storage error"))
              /\ keyPair' = [publicKey |-> publicKeyFromPrivate(call.secretKey),
                             secretKey |-> call.secretKey]
              /\ keyPairFor' = call.user
              /\ UNCHANGED keyStorage
         ELSE LET publicKey == publicKeyFromPrivate(call.secretKey)
              IN  /\ keyStorage' =
                        [keyStorage EXCEPT ![call.arg] =
                            [publicKey |-> bytesToBase64(publicKey),
                             secretKey |-> bytesToBase64(call.secretKey)]]
                  /\ keyPair' = [publicKey |-> publicKey, secretKey |-> call.secretKey]
                  /\ keyPairFor' = call.user
                  /\ Finish(Returned(call, "true"))
    /\ UNCHANGED <<config, apiState, realtimeState, messageState, cryptoState, deviceState, currentUserId, publicKeyCache, publicKeys, keyBackups,
                   randomState, interfered>>

RestoreStoredLocal ==
    /\ call.op = "restoreEncryption"
    /\ call.pc = "storeKeyPair"
    /\ \E ok \in BOOLEAN :
         IF ~ok
         THEN /\ Finish(Threw(call, "storage error"))
              /\ UNCHANGED <<keyStorage, keyPair, keyPairFor>>
         ELSE LET publicKey == publicKeyFromPrivate(call.secretKey)
              IN  /\ keyStorage' =
                        [keyStorage EXCEPT ![call.arg] =
                            [publicKey |-> bytesToBase64(publicKey),
                             secretKey |-> bytesToBase64(call.secretKey)]]
                  /\ keyPair' = [publicKey |-> publicKey, secretKey |-> call.secretKey]
                  /\ keyPairFor' = call.user
                  /\ Finish(Returned(call, "true"))
    /\ UNCHANGED <<config, apiState, realtimeState, messageState, cryptoState, deviceState, currentUserId, publicKeyCache, publicKeys, keyBackups,
                   randomState, interfered>>

\* ------------------------------------------- isEncryptionReady, listMessages

isEncryptionReady == ~e2eEnabled \/ keyPair # Null

\* listMessages returns the adapter's result as stored, without decrypting.
ListMessagesReturnsStored == ~e2eEnabled \/ keyPair = Null

\* ------------------------------------------------------------ getPublicKey

\* The private getPublicKey(userId), as sendMessage and decryptMessage call it:
\* both call it only with E2E enabled, a key pair loaded and a user set.
GetPublicKey(userId) ==
    /\ CanStart
    /\ e2eEnabled
    /\ keyPair # Null
    /\ currentUserId # NoUser
    /\ LET c == [Started("getPublicKey") EXCEPT !.arg = userId]
           cached == publicKeyCache[userId]
       IN  IF cached # Null
           THEN Finish([Returned(c, "value") EXCEPT !.value = cached])
           ELSE IF Has("getPublicKey")
           THEN Issue(c, "getPublicKey", userId, "n/a")
           ELSE Finish(Returned(c, "null"))
    /\ interfered' = FALSE
    /\ UNCHANGED <<config, apiState, realtimeState, messageState, cryptoState, deviceState, serviceState, collaboratorState, randomState>>

\* Mutant: an absent key is cached as an empty key.
GetPublicKeyFetchedCachesAbsence ==
    /\ call.op = "getPublicKey"
    /\ call.pc = "getPublicKey"
    /\ \E ok \in BOOLEAN :
         IF ~ok
         THEN /\ Finish(Threw(call, "adapter error"))
              /\ UNCHANGED publicKeyCache
         ELSE LET publicKey == publicKeys[call.arg]
              IN  IF publicKey # Null
                  THEN LET bytes == base64ToBytes(publicKey)
                       IN  /\ publicKeyCache' = [publicKeyCache EXCEPT ![call.arg] = bytes]
                           /\ Finish([Returned(call, "value") EXCEPT !.value = bytes])
                  ELSE /\ publicKeyCache' = [publicKeyCache EXCEPT ![call.arg] = [pk |-> 0]]
                       /\ Finish(Returned(call, "null"))
    /\ UNCHANGED <<config, apiState, realtimeState, messageState, cryptoState, deviceState, currentUserId, keyPair, keyPairFor, collaboratorState,
                   randomState,
                   interfered>>

GetPublicKeyFetched ==
    /\ call.op = "getPublicKey"
    /\ call.pc = "getPublicKey"
    /\ \E ok \in BOOLEAN :
         IF ~ok
         THEN /\ Finish(Threw(call, "adapter error"))
              /\ UNCHANGED publicKeyCache
         ELSE LET publicKey == publicKeys[call.arg]
              IN  IF publicKey # Null
                  THEN LET bytes == base64ToBytes(publicKey)
                       IN  /\ publicKeyCache' = [publicKeyCache EXCEPT ![call.arg] = bytes]
                           /\ Finish([Returned(call, "value") EXCEPT !.value = bytes])
                  ELSE /\ UNCHANGED publicKeyCache
                       /\ Finish(Returned(call, "null"))
    /\ UNCHANGED <<config, apiState, realtimeState, messageState, cryptoState, deviceState, currentUserId, keyPair, keyPairFor, collaboratorState,
                   randomState,
                   interfered>>

\* ------------------------------------------------------------- sendMessage

\* A Message as the service returns it.
Listed(message, content, contentEncrypted) ==
    [conversationId |-> message.conversationId, senderId |-> message.senderId,
     content |-> content, contentEncrypted |-> contentEncrypted]

\* adapter.sendMessage(conversationId, this.currentUserId, {...message, content})
SendToAdapter(c, content) ==
    Issue([c EXCEPT !.stored = content], "sendMessage", currentUserId, "n/a")

\* Mutant: the sender's and the recipient's public key change places.
SendEncryptedKeysExchanged(c, recipientId, recipientPublicKey) ==
    IF keyPair = Null THEN Finish(Threw(c, "TypeError"))
    ELSE LET encrypted ==
                 createEncryptedContent(c.content, keyPair.secretKey, recipientPublicKey,
                                        keyPair.publicKey, recipientId,
                                        randomNonce(2 * Len(messages) + 1),
                                        randomNonce(2 * Len(messages) + 2))
         IN  SendToAdapter(c, JSONstringify(encrypted))

\* createEncryptedContent with this.keyPair as it is now, then the adapter call.
SendEncrypted(c, recipientId, recipientPublicKey) ==
    IF keyPair = Null THEN Finish(Threw(c, "TypeError"))
    ELSE LET encrypted ==
                 createEncryptedContent(c.content, keyPair.secretKey, keyPair.publicKey,
                                        recipientPublicKey, recipientId,
                                        randomNonce(2 * Len(messages) + 1),
                                        randomNonce(2 * Len(messages) + 2))
         IN  SendToAdapter(c, JSONstringify(encrypted))

SendMessage(conversationId, content) ==
    /\ CanStart
    /\ LET c == [Started("sendMessage") EXCEPT !.conversationId = conversationId,
                                               !.content = content]
       IN  IF currentUserId = NoUser THEN Finish(Threw(c, "No user set"))
           ELSE IF e2eEnabled /\ keyPair # Null
           THEN Issue(c, "getConversation", NoUser, "n/a")
           ELSE SendToAdapter(c, content)
    /\ interfered' = FALSE
    /\ UNCHANGED <<config, apiState, realtimeState, messageState, cryptoState, deviceState, serviceState,
                   collaboratorState, randomState>>

SendGotConversation ==
    /\ call.op = "sendMessage"
    /\ call.pc = "getConversation"
    /\ \E ok \in BOOLEAN :
         LET conversation == getConversation(call.conversationId)
         IN  IF ~ok THEN Finish(Threw(call, "adapter error"))
             ELSE IF conversation = Null THEN Finish(Threw(call, "Conversation not found"))
             ELSE LET otherParticipants == conversation.participants \ {currentUserId}
                  IN  IF Cardinality(otherParticipants) = 1
                      THEN LET recipientId == CHOOSE id \in otherParticipants : TRUE
                           IN  IF publicKeyCache[recipientId] # Null
                               THEN SendEncrypted(call, recipientId,
                                                  publicKeyCache[recipientId])
                               ELSE IF Has("getPublicKey")
                               THEN Issue(call, "getPublicKey", recipientId, "n/a")
                               ELSE Finish(Threw(call,
                                                 "Recipient has not set up encryption"))
                      ELSE SendToAdapter(call, call.content)
    /\ UNCHANGED <<config, apiState, realtimeState, messageState, cryptoState, deviceState, serviceState,
                   collaboratorState, randomState, interfered>>

\* Mutant: without a recipient key the message is sent as it is.
SendGotPublicKeyFallsBack ==
    /\ call.op = "sendMessage"
    /\ call.pc = "getPublicKey"
    /\ \E ok \in BOOLEAN :
         IF ~ok
         THEN /\ Finish(Threw(call, "adapter error"))
              /\ UNCHANGED publicKeyCache
         ELSE LET publicKey == publicKeys[call.arg]
              IN  IF publicKey = Null
                  THEN /\ SendToAdapter(call, call.content)
                       /\ UNCHANGED publicKeyCache
                  ELSE LET bytes == base64ToBytes(publicKey)
                       IN  /\ publicKeyCache' = [publicKeyCache EXCEPT ![call.arg] = bytes]
                           /\ SendEncrypted(call, call.arg, bytes)
    /\ UNCHANGED <<config, apiState, realtimeState, messageState, cryptoState, deviceState, currentUserId, keyPair,
                   keyPairFor, collaboratorState, randomState, interfered>>

SendGotPublicKey ==
    /\ call.op = "sendMessage"
    /\ call.pc = "getPublicKey"
    /\ \E ok \in BOOLEAN :
         IF ~ok
         THEN /\ Finish(Threw(call, "adapter error"))
              /\ UNCHANGED publicKeyCache
         ELSE LET publicKey == publicKeys[call.arg]
              IN  IF publicKey = Null
                  THEN /\ Finish(Threw(call, "Recipient has not set up encryption"))
                       /\ UNCHANGED publicKeyCache
                  ELSE LET bytes == base64ToBytes(publicKey)
                       IN  /\ publicKeyCache' = [publicKeyCache EXCEPT ![call.arg] = bytes]
                           /\ SendEncrypted(call, call.arg, bytes)
    /\ UNCHANGED <<config, apiState, realtimeState, messageState, cryptoState, deviceState, currentUserId, keyPair,
                   keyPairFor, collaboratorState, randomState, interfered>>

\* The private decryptMessage(message) once getPublicKey(message.senderId) has
\* answered; a thrown error (this.keyPair is null by now) is caught.
DecryptedMessage(message, senderPublicKey) ==
    IF senderPublicKey = Null
    THEN Listed(message, Text("[Unable to decrypt: sender key not found]"), Null)
    ELSE IF keyPair = Null
    THEN Listed(message, Text("[Decryption error]"), Null)
    ELSE LET decrypted == decryptMessageContent(message.content, message.senderId,
                                                currentUserId, senderPublicKey,
                                                keyPair.secretKey)
         IN  IF decrypted # Null /\ decrypted # Text("")
             THEN Listed(message, decrypted, message.content)
             ELSE Listed(message, Text("[Unable to decrypt message]"), Null)

\* What the subscriber's callback is called with: the n-th message the adapter
\* emitted, and whether the subscription was still active.
Called(n, message) == [n |-> n, message |-> message, subscription |-> subscription]

\* The wrapper of onNewMessage up to its first collaborator call, for the n-th
\* message the adapter emits: decryptMessage(message) returns at once, or awaits
\* the lookup of the sender's public key.
Wrapper(n, message) ==
    IF ~e2eEnabled \/ keyPair = Null \/ currentUserId = NoUser
    THEN /\ callbacks' = Append(callbacks, Called(n, Listed(message, message.content, Null)))
         /\ UNCHANGED deliveries
    ELSE IF publicKeyCache[message.senderId] # Null
    THEN /\ callbacks' =
              Append(callbacks,
                     Called(n, DecryptedMessage(message, publicKeyCache[message.senderId])))
         /\ UNCHANGED deliveries
    ELSE IF Has("getPublicKey")
    THEN /\ deliveries' = deliveries \cup {[n |-> n, message |-> message]}
         /\ UNCHANGED callbacks
    ELSE /\ callbacks' = Append(callbacks, Called(n, DecryptedMessage(message, Null)))
         /\ UNCHANGED deliveries

\* "Notify subscribers" of the adapter's sendMessage: each callback of the
\* conversation is called with the new message.
Notify(message) ==
    IF subscription = "active"
    THEN /\ emitted' = emitted + 1
         /\ UNCHANGED subscription
         /\ Wrapper(emitted + 1, message)
    ELSE UNCHANGED realtimeState

\* The adapter stores the message it was handed and returns it; the caller
\* gets {...sent, content: message.content, contentEncrypted}.
SendStored ==
    /\ call.op = "sendMessage"
    /\ call.pc = "sendMessage"
    /\ \E ok \in BOOLEAN :
         IF ~ok
         THEN /\ Finish(Threw(call, "adapter error"))
              /\ UNCHANGED <<messages, realtimeState>>
         ELSE IF getConversation(call.conversationId) = Null
         THEN /\ Finish(Threw(call, "Conversation not found"))
              /\ UNCHANGED <<messages, realtimeState>>
         ELSE LET sent == [conversationId |-> call.conversationId,
                           senderId |-> call.arg,
                           content |-> call.stored]
              IN  /\ messages' = Append(messages, sent)
                  /\ Notify(sent)
                  /\ Finish([Returned(call, "message") EXCEPT
                               !.value = Listed(sent, call.content,
                                                IF e2eEnabled THEN call.stored ELSE Null)])
    /\ UNCHANGED <<config, apiState, cryptoState, deviceState, serviceState, collaboratorState,
                   randomState, interfered>>

\* ------------------------------------------------ listMessages, decryptMessage

IsPending(entry) == "pending" \in DOMAIN entry

\* call' and trace' once every message of the list has its entry, or while
\* lookups of sender keys are pending.
ListedSoFar(c, entries) ==
    IF \E i \in 1..Len(entries) : IsPending(entries[i])
    THEN /\ call' = [c EXCEPT !.pc = "getPublicKey", !.value = entries]
         /\ trace' = IF c.pc = "getPublicKey" THEN trace
                     ELSE trace \o [i \in 1..Cardinality({j \in 1..Len(entries) :
                                                             IsPending(entries[j])})
                                      |-> Did("getPublicKey", "n/a")]
    ELSE Finish([Returned(c, IF c.op = "onNewMessage" THEN "callback" ELSE "messages")
                   EXCEPT !.value = entries])

ListMessages(conversationId) ==
    /\ CanStart
    /\ Issue([Started("listMessages") EXCEPT !.conversationId = conversationId],
             "listMessages", NoUser, "n/a")
    /\ interfered' = FALSE
    /\ UNCHANGED <<config, apiState, realtimeState, messageState, cryptoState, deviceState, serviceState,
                   collaboratorState, randomState>>

\* The adapter's result is returned as it is, or every message goes through
\* decryptMessage: the ones whose sender key is cached are decrypted at once,
\* for each of the others a lookup is started.
ListGotMessages ==
    /\ call.op = "listMessages"
    /\ call.pc = "listMessages"
    /\ \E ok \in BOOLEAN :
         LET result == SelectSeq(messages,
                                 LAMBDA m : m.conversationId = call.conversationId)
         IN  IF ~ok THEN Finish(Threw(call, "adapter error"))
             ELSE IF ~e2eEnabled \/ keyPair = Null \/ currentUserId = NoUser
             THEN Finish([Returned(call, "messages") EXCEPT
                            !.value = [i \in 1..Len(result) |->
                                         Listed(result[i], result[i].content, Null)]])
             ELSE ListedSoFar(call,
                    [i \in 1..Len(result) |->
                       IF publicKeyCache[result[i].senderId] # Null
                       THEN DecryptedMessage(result[i], publicKeyCache[result[i].senderId])
                       ELSE IF Has("getPublicKey") THEN [pending |-> result[i]]
                       ELSE DecryptedMessage(result[i], Null)])
    /\ UNCHANGED <<config, apiState, realtimeState, messageState, cryptoState, deviceState, serviceState,
                   collaboratorState, randomState, interfered>>

\* Mutant: no try/catch in decryptMessage, the failed lookup rejects.
ListGotPublicKeyUncaught ==
    /\ call.op \in {"listMessages", "onNewMessage"}
    /\ call.pc = "getPublicKey"
    /\ \E i \in 1..Len(call.value), ok \in BOOLEAN :
         /\ IsPending(call.value[i])
         /\ LET message == call.value[i].pending
                publicKey == publicKeys[message.senderId]
            IN  IF ~ok
                THEN /\ UNCHANGED publicKeyCache
                     /\ Finish(Threw(call, "adapter error"))
                ELSE IF publicKey = Null
                THEN /\ UNCHANGED publicKeyCache
                     /\ ListedSoFar(call, [call.value EXCEPT
                            ![i] = DecryptedMessage(message, Null)])
                ELSE /\ publicKeyCache' = [publicKeyCache EXCEPT
                            ![message.senderId] = base64ToBytes(publicKey)]
                     /\ ListedSoFar(call, [call.value EXCEPT
                            ![i] = DecryptedMessage(message, base64ToBytes(publicKey))])
    /\ UNCHANGED <<config, apiState, realtimeState, messageState, cryptoState, deviceState, currentUserId, keyPair,
                   keyPairFor, collaboratorState, randomState, interfered>>

\* One of the pending lookups answers.
ListGotPublicKey ==
    /\ call.op \in {"listMessages", "onNewMessage"}
    /\ call.pc = "getPublicKey"
    /\ \E i \in 1..Len(call.value), ok \in BOOLEAN :
         /\ IsPending(call.value[i])
         /\ LET message == call.value[i].pending
                publicKey == publicKeys[message.senderId]
            IN  IF ~ok
                THEN /\ UNCHANGED publicKeyCache
                     /\ ListedSoFar(call, [call.value EXCEPT
                            ![i] = Listed(message, Text("[Decryption error]"), Null)])
                ELSE IF publicKey = Null
                THEN /\ UNCHANGED publicKeyCache
                     /\ ListedSoFar(call, [call.value EXCEPT
                            ![i] = DecryptedMessage(message, Null)])
                ELSE /\ publicKeyCache' = [publicKeyCache EXCEPT
                            ![message.senderId] = base64ToBytes(publicKey)]
                     /\ ListedSoFar(call, [call.value EXCEPT
                            ![i] = DecryptedMessage(message, base64ToBytes(publicKey))])
    /\ UNCHANGED <<config, apiState, realtimeState, messageState, cryptoState, deviceState, currentUserId, keyPair,
                   keyPairFor, collaboratorState, randomState, interfered>>

\* --------------------------------------------------------------- onNewMessage

\* The adapter hands a message of the conversation to the subscription:
\* decryptMessage(message), then callback(decrypted).
OnNewMessage ==
    /\ CanStart
    /\ \E i \in 1..Len(messages) :
         LET message == messages[i]
             c == [Started("onNewMessage") EXCEPT !.conversationId = message.conversationId]
         IN  IF ~e2eEnabled \/ keyPair = Null \/ currentUserId = NoUser
             THEN Finish([Returned(c, "callback") EXCEPT
                            !.value = <<Listed(message, message.content, Null)>>])
             ELSE ListedSoFar(c,
                    <<IF publicKeyCache[message.senderId] # Null
                      THEN DecryptedMessage(message, publicKeyCache[message.senderId])
                      ELSE IF Has("getPublicKey") THEN [pending |-> message]
                      ELSE DecryptedMessage(message, Null)>>)
    /\ interfered' = FALSE
    /\ UNCHANGED <<config, apiState, realtimeState, messageState, cryptoState, deviceState, serviceState,
                   collaboratorState, randomState>>

\* ------------------------------------------------------------- environment

\* The local key store loses a user's entry (deleteKeyPair, cleared storage).
\* Every service method reads or writes the store in one step only, so a
\* deletion during a method in flight has the effect of one before or after it.
DeleteKeyPair(userId) ==
    /\ CanStart
    /\ keyStorage[userId] # Null
    /\ keyStorage' = [keyStorage EXCEPT ![userId] = Null]
    /\ UNCHANGED <<config, apiState, realtimeState, messageState, cryptoState, deviceState, serviceState, publicKeys, keyBackups, randomState, call, trace,
                   interfered>>

\* The caller takes the result; the slot is free again.
Return ==
    /\ call.pc = "done"
    /\ call' = Idle
    /\ trace' = <<>>
    /\ interfered' = FALSE
    /\ UNCHANGED <<config, apiState, realtimeState, messageState, cryptoState, deviceState, serviceState, collaboratorState, randomState>>

\* ------------------------------------------------------------ specification

Next ==
    \/ \E userId \in Users : SetCurrentUser(userId)
    \/ GetEncryptionStatus
    \/ StatusLoaded
    \/ StatusGotBackup
    \/ StatusGotPublicKey
    \/ InitializeEncryption
    \/ InitializeLoaded
    \/ \E pin \in SetupPins : SetupEncryption(pin)
    \/ SetupEncrypted
    \/ SetupStoredPublicKey
    \/ SetupStoredBackup
    \/ SetupStoredLocal
    \/ \E pin \in RestorePins : RestoreEncryption(pin)
    \/ RestoreGotBackup
    \/ RestoreDecrypted
    \/ RestoreRecorded
    \/ RestoreStoredLocal
    \/ \E userId \in Users : GetPublicKey(userId)
    \/ GetPublicKeyFetched
    \/ \E userId \in Users : DeleteKeyPair(userId)
    \/ Return

Spec == Init /\ [][Next]_vars

\* ------------------------------------------------------------ second device

\* The user has completed setupEncryption on one device and takes a second
\* one: a new MessagingService with its own, empty key storage is constructed
\* over the same adapter.  firstDevice keeps what the first instance holds.
SecondDevice ==
    /\ firstDevice = Null
    /\ call.op = "setupEncryption"
    /\ call.pc = "done"
    /\ call.result = "true"
    /\ firstDevice' = [user |-> call.user, pin |-> call.pin, keyPair |-> keyPair,
                       keyStorage |-> keyStorage, interfered |-> interfered]
    /\ currentUserId' = NoUser
    /\ keyPair' = Null
    /\ keyPairFor' = NoUser
    /\ publicKeyCache' = [u \in Users |-> Null]
    /\ keyStorage' = [u \in Users |-> Null]
    /\ call' = Idle
    /\ trace' = <<>>
    /\ interfered' = FALSE
    /\ UNCHANGED <<config, apiState, realtimeState, messageState, cryptoState, publicKeys, keyBackups, randomState>>

\* The adapters of the two-device scenario: they all have the backup methods.
DeviceDeployments ==
    {d \in Deployments : d[1] /\ {"storeKeyBackup", "getKeyBackup"} \subseteq d[2]}

InitDevices ==
    /\ Init
    /\ <<e2eEnabled, adapterMethods>> \in DeviceDeployments

\* setupEncryption runs on the first device only; the second one restores.
NextDevices ==
    \/ \E userId \in Users : SetCurrentUser(userId)
    \/ firstDevice = Null /\ \E pin \in SetupPins : SetupEncryption(pin)
    \/ SetupEncrypted
    \/ SetupStoredPublicKey
    \/ SetupStoredBackup
    \/ SetupStoredLocal
    \/ SecondDevice
    \/ firstDevice # Null /\ InitializeEncryption
    \/ InitializeLoaded
    \/ firstDevice # Null /\ \E pin \in RestorePins : RestoreEncryption(pin)
    \/ RestoreGotBackup
    \/ RestoreDecrypted
    \/ RestoreRecorded
    \/ RestoreStoredLocal
    \/ Return

SpecDevices == InitDevices /\ [][NextDevices]_vars

\* ----------------------------------------------- encryptMessage, decryptMessage

Plaintexts == {Text(""), Text("hi"), Text("see you at 8")}

Parties == 1..MaxParties

Nonces == {randomNonce(1), randomNonce(2)}

\* What a stored or transmitted envelope can turn into: its bytes cut short,
\* extended or altered, a nonce that is not the one used, or a string that
\* is not base64.
Damaged(envelope) ==
    LET fullMessage == decodeBase64(envelope)
        nonce == fullMessage[1]
        encrypted == fullMessage[2]
    IN  {encodeBase64(<<>>),
         encodeBase64(<<nonce>>),
         encodeBase64(<<nonce, encrypted, encrypted>>),
         encodeBase64(<<nonce, [encrypted EXCEPT !.body = decodeUTF8(Text("forged"))]>>),
         encodeBase64(<<randomNonce(0), encrypted>>),
         [text |-> "not base64"]}

InitCrypto ==
    /\ e2eEnabled = TRUE
    /\ adapterMethods = FullAdapter
    /\ currentUserId = NoUser
    /\ keyPair = Null
    /\ keyPairFor = NoUser
    /\ publicKeyCache = [u \in Users |-> Null]
    /\ keyStorage = [u \in Users |-> Null]
    /\ publicKeys = [u \in Users |-> Null]
    /\ keyBackups = [u \in Users |-> Null]
    /\ nextKey = 0
    /\ call = Idle
    /\ trace = <<>>
    /\ interfered = FALSE
    /\ firstDevice = Null
    /\ messages = <<>>
    /\ requests = <<>>
    /\ subscription = "none"
    /\ emitted = 0
    /\ deliveries = {}
    /\ callbacks = <<>>
    /\ dualTrip = Null
    /\ pinTrip = Null
    /\ \E plaintext \in Plaintexts, sender \in Parties, recipient \in Parties,
          nonce \in Nonces :
         roundTrip = [pc |-> "input", plaintext |-> plaintext,
                      sender |-> generateKeyPair(sender),
                      recipient |-> generateKeyPair(recipient),
                      nonce |-> nonce, envelope |-> Null, damaged |-> FALSE,
                      secretKey |-> Null, result |-> Null]

serviceVars ==
    <<config, serviceState, collaboratorState, randomState, call, trace, interfered,
      deviceState, messageState, apiState, realtimeState>>

\* A round trip leaves the service as it is.
ServiceAtInit ==
    /\ e2eEnabled = TRUE
    /\ adapterMethods = FullAdapter
    /\ currentUserId = NoUser
    /\ keyPair = Null
    /\ keyPairFor = NoUser
    /\ publicKeyCache = [u \in Users |-> Null]
    /\ keyStorage = [u \in Users |-> Null]
    /\ publicKeys = [u \in Users |-> Null]
    /\ keyBackups = [u \in Users |-> Null]
    /\ nextKey = 0
    /\ call = Idle
    /\ trace = <<>>
    /\ interfered = FALSE
    /\ firstDevice = Null
    /\ messages = <<>>
    /\ requests = <<>>
    /\ subscription = "none"
    /\ emitted = 0
    /\ deliveries = {}
    /\ callbacks = <<>>

\* The sender encrypts the plaintext for the recipient.
EncryptMessage ==
    /\ roundTrip.pc = "input"
    /\ roundTrip' =
         [roundTrip EXCEPT
            !.pc = "sealed",
            !.envelope = encryptMessage(roundTrip.plaintext, roundTrip.recipient.publicKey,
                                        roundTrip.sender.secretKey, roundTrip.nonce)]
    /\ UNCHANGED <<serviceVars, dualTrip, pinTrip>>

DamageEnvelope ==
    /\ roundTrip.pc = "sealed"
    /\ ~roundTrip.damaged
    /\ \E envelope \in Damaged(roundTrip.envelope) :
         roundTrip' = [roundTrip EXCEPT !.envelope = envelope, !.damaged = TRUE]
    /\ UNCHANGED <<serviceVars, dualTrip, pinTrip>>

\* Some party opens the envelope with the sender's public key and its own
\* secret key.
DecryptMessage ==
    /\ roundTrip.pc = "sealed"
    /\ \E party \in Parties :
         LET secretKey == generateKeyPair(party).secretKey
         IN  roundTrip' =
               [roundTrip EXCEPT
                  !.pc = "opened",
                  !.secretKey = secretKey,
                  !.result = decryptMessage(roundTrip.envelope,
                                            roundTrip.sender.publicKey, secretKey)]
    /\ UNCHANGED <<serviceVars, dualTrip, pinTrip>>

NextCrypto ==
    \/ EncryptMessage
    \/ DamageEnvelope
    \/ DecryptMessage

SpecCrypto == InitCrypto /\ [][NextCrypto]_vars

\* ------------------------------- createEncryptedContent, decryptMessageContent

\* The user ID of the party holding the n-th key pair.
userIdOf(n) == [userId |-> n]

InitContent ==
    /\ ServiceAtInit
    /\ roundTrip = Null
    /\ pinTrip = Null
    /\ \E plaintext \in Plaintexts, sender \in Parties, recipient \in Parties :
         dualTrip = [pc |-> "input", plaintext |-> plaintext,
                     sender |-> sender, recipient |-> recipient,
                     format |-> "none", content |-> Null,
                     senderId |-> Null, userId |-> Null,
                     senderPublicKey |-> Null, secretKey |-> Null, result |-> Null]

\* The sender makes the dual envelope and its JSON, as sendMessage does.
CreateEncryptedContent ==
    /\ dualTrip.pc = "input"
    /\ LET S == generateKeyPair(dualTrip.sender)
           R == generateKeyPair(dualTrip.recipient)
           encrypted == createEncryptedContent(dualTrip.plaintext, S.secretKey, S.publicKey, R.publicKey, userIdOf(dualTrip.recipient), randomNonce(1), randomNonce(2))
       IN  dualTrip' = [dualTrip EXCEPT !.pc = "stored", !.format = "dual",
                                        !.content = JSONstringify(encrypted)]
    /\ UNCHANGED <<serviceVars, roundTrip, pinTrip>>

\* The legacy format: the content is one envelope, for the recipient.
EncryptLegacy ==
    /\ dualTrip.pc = "input"
    /\ LET S == generateKeyPair(dualTrip.sender)
           R == generateKeyPair(dualTrip.recipient)
       IN  dualTrip' =
             [dualTrip EXCEPT
                !.pc = "stored", !.format = "legacy",
                !.content = encryptMessage(dualTrip.plaintext, R.publicKey, S.secretKey, randomNonce(1))]
    /\ UNCHANGED <<serviceVars, roundTrip, pinTrip>>

\* What a stored dual envelope can turn into: a field emptied or missing, the
\* two fields exchanged, a field that is no envelope, or no JSON at all.
Altered(content) ==
    LET encrypted == content.json
    IN  {JSONstringify([encrypted EXCEPT !.s = encodeBase64(<<>>)]),
         JSONstringify([encrypted EXCEPT !.r = encodeBase64(<<>>)]),
         JSONstringify([encrypted EXCEPT !.s = Null]),
         JSONstringify([encrypted EXCEPT !.r = Null]),
         JSONstringify([encrypted EXCEPT !.s = encrypted.r, !.r = encrypted.s]),
         JSONstringify([encrypted EXCEPT !.s = [text |-> "not base64"]]),
         JSONstringify([encrypted EXCEPT !.r = [text |-> "not base64"]]),
         [text |-> "not base64"]}

AlterContent ==
    /\ dualTrip.pc = "stored"
    /\ dualTrip.format = "dual"
    /\ \E content \in Altered(dualTrip.content) :
         dualTrip' = [dualTrip EXCEPT !.content = content, !.format = "altered"]
    /\ UNCHANGED <<serviceVars, roundTrip, pinTrip>>

\* Some party decodes the content, as a message of some sender.
DecryptMessageContent ==
    /\ dualTrip.pc = "stored"
    /\ \E senderId \in Parties, userId \in Parties, publicKeyOf \in Parties, secretKeyOf \in Parties :
         LET senderPublicKey == generateKeyPair(publicKeyOf).publicKey
             secretKey == generateKeyPair(secretKeyOf).secretKey
         IN  dualTrip' =
               [dualTrip EXCEPT
                  !.pc = "opened",
                  !.senderId = userIdOf(senderId),
                  !.userId = userIdOf(userId),
                  !.senderPublicKey = senderPublicKey,
                  !.secretKey = secretKey,
                  !.result = decryptMessageContent(dualTrip.content, userIdOf(senderId), userIdOf(userId), senderPublicKey, secretKey)]
    /\ UNCHANGED <<serviceVars, roundTrip, pinTrip>>

NextContent ==
    \/ CreateEncryptedContent
    \/ EncryptLegacy
    \/ AlterContent
    \/ DecryptMessageContent

SpecContent == InitContent /\ [][NextContent]_vars

\* ------------------------ encryptPrivateKeyWithPin, decryptPrivateKeyWithPin

\* The PINs the backup functions are called with; they do not validate.
Pins == InvalidPins \cup {Pin000000, Pin123456}

InitBackup ==
    /\ ServiceAtInit
    /\ roundTrip = Null
    /\ dualTrip = Null
    /\ \E party \in Parties, pin \in Pins, n \in 1..2 :
         pinTrip = [pc |-> "input", secretKey |-> generateKeyPair(party).secretKey,
                    pin |-> pin, salt |-> randomSalt(n), nonce |-> randomNonce(n),
                    blob |-> Null, damaged |-> FALSE, tried |-> <<>>, result |-> Null]

EncryptPrivateKeyWithPin ==
    /\ pinTrip.pc = "input"
    /\ pinTrip' =
         [pinTrip EXCEPT
            !.pc = "stored",
            !.blob = encryptPrivateKeyWithPin(pinTrip.secretKey, pinTrip.pin, pinTrip.salt, pinTrip.nonce)]
    /\ UNCHANGED <<serviceVars, roundTrip, dualTrip>>

\* What a stored backup can turn into: another salt or nonce in front, the
\* sealed key of another backup, or a string that is not base64.
DamagedBackup(blob) ==
    LET combined == base64ToBytes(blob)
    IN  {bytesToBase64([combined EXCEPT !.salt = randomSalt(0)]),
         bytesToBase64([combined EXCEPT !.nonce = randomNonce(0)]),
         bytesToBase64([combined EXCEPT !.encrypted.msg = [sk |-> 0]]),
         [text |-> "not base64"]}

DamageBackup ==
    /\ pinTrip.pc = "stored"
    /\ ~pinTrip.damaged
    /\ \E blob \in DamagedBackup(pinTrip.blob) :
         pinTrip' = [pinTrip EXCEPT !.blob = blob, !.damaged = TRUE]
    /\ UNCHANGED <<serviceVars, roundTrip, dualTrip>>

DecryptPrivateKeyWithPin ==
    /\ pinTrip.pc = "stored"
    /\ \E pin \in Pins :
         pinTrip' =
           [pinTrip EXCEPT
              !.pc = "opened",
              !.tried = pin,
              !.result = decryptPrivateKeyWithPin(pinTrip.blob, pin)]
    /\ UNCHANGED <<serviceVars, roundTrip, dualTrip>>

\* adapter.storeKeyBackup(userId, encryptedKey): the backup, once tried, is
\* what the Key Directory holds for a user, as after a setupEncryption on
\* another device.
StoreKeyBackup ==
    /\ pinTrip.pc = "opened"
    /\ ~pinTrip.damaged
    /\ CanStart
    /\ \E userId \in Users :
         keyBackups' = [keyBackups EXCEPT ![userId] = pinTrip.blob]
    /\ UNCHANGED <<config, apiState, realtimeState, messageState, cryptoState, deviceState, serviceState, keyStorage, publicKeys, randomState, call, trace, interfered>>

\* The trials of the two functions, then restoreEncryption on a service whose
\* Key Directory holds the backup.
NextBackup ==
    \/ EncryptPrivateKeyWithPin
    \/ DamageBackup
    \/ DecryptPrivateKeyWithPin
    \/ StoreKeyBackup
    \/ CanStart /\ \E userId \in Users : SetCurrentUser(userId)
    \/ \E pin \in Pins : RestoreEncryption(pin)
    \/ RestoreGotBackup
    \/ RestoreDecrypted
    \/ RestoreRecorded
    \/ RestoreStoredLocal
    \/ Return

SpecBackup == InitBackup /\ [][NextBackup]_vars

\* ---------------------------------------------------------------- messaging

\* The services that send and list: E2E with the full and with the plain
\* adapter, and no E2E.
MessagingDeployments ==
    {<<TRUE, FullAdapter>>, <<TRUE, PlainAdapter>>, <<FALSE, FullAdapter>>}

InitMessages ==
    /\ Init
    /\ <<e2eEnabled, adapterMethods>> \in MessagingDeployments

\* The host serializes: the user is switched between calls, not during one
\* (the interleavings are those of Spec).
NextMessages ==
    \/ CanStart /\ \E userId \in Users : SetCurrentUser(userId)
    \/ SetupEncryption(Pin000000)
    \/ SetupEncrypted
    \/ SetupStoredPublicKey
    \/ SetupStoredBackup
    \/ SetupStoredLocal
    \/ \E pin \in {Pin000000, Pin123456} : RestoreEncryption(pin)
    \/ RestoreGotBackup
    \/ RestoreDecrypted
    \/ RestoreRecorded
    \/ RestoreStoredLocal
    \/ /\ Len(messages) < MaxMessages
       /\ \E conversationId \in ConversationIds, content \in MessageBodies :
            SendMessage(conversationId, content)
    \/ SendGotConversation
    \/ SendGotPublicKey
    \/ SendStored
    \/ \E conversationId \in ConversationIds : ListMessages(conversationId)
    \/ ListGotMessages
    \/ ListGotPublicKey
    \/ Return

SpecMessages == InitMessages /\ [][NextMessages]_vars

\* -------------------------------------------------------------------- inbox

\* The message bodies of a conversation, the empty one included.
InboxBodies == {Text(""), Text("hi")}

\* Services with E2E enabled, on the full and on the plain adapter.
InitInbox ==
    /\ Init
    /\ e2eEnabled
    /\ adapterMethods \in {FullAdapter, PlainAdapter}

\* The two users of the conversation "dm" set up their keys, send, list and
\* are notified; the host serializes the calls.
NextInbox ==
    \/ CanStart /\ \E userId \in Users : SetCurrentUser(userId)
    \/ SetupEncryption(Pin000000)
    \/ SetupEncrypted
    \/ SetupStoredPublicKey
    \/ SetupStoredBackup
    \/ SetupStoredLocal
    \/ /\ Len(messages) < MaxInbox
       /\ \E content \in InboxBodies : SendMessage("dm", content)
    \/ SendGotConversation
    \/ SendGotPublicKey
    \/ SendStored
    \/ ListMessages("dm")
    \/ ListGotMessages
    \/ ListGotPublicKey
    \/ OnNewMessage
    \/ Return

SpecInbox == InitInbox /\ [][NextInbox]_vars

\* ----------------------------------------------------------------- realtime

\* onNewMessage(conversationId, callback): the wrapper joins the adapter's
\* callbacks of the conversation.
Subscribe ==
    /\ subscription = "none"
    /\ subscription' = "active"
    /\ UNCHANGED <<emitted, deliveries, callbacks>>
    /\ UNCHANGED <<config, apiState, messageState, cryptoState, deviceState, serviceState,
                   collaboratorState, randomState, call, trace, interfered>>

\* The Unsubscribe the adapter returned: callbacks.delete(callback).
Unsubscribe ==
    /\ subscription = "active"
    /\ subscription' = "unsubscribed"
    /\ UNCHANGED <<emitted, deliveries, callbacks>>
    /\ UNCHANGED <<config, apiState, messageState, cryptoState, deviceState, serviceState,
                   collaboratorState, randomState, call, trace, interfered>>

\* The sender-key lookup of one waiting wrapper answers: decryptMessage goes on
\* with the keys the service holds by now, then callback(decrypted).
DeliveryGotPublicKey ==
    \E d \in deliveries, ok \in BOOLEAN :
        LET publicKey == publicKeys[d.message.senderId]
        IN  /\ deliveries' = deliveries \ {d}
            /\ IF ~ok
               THEN /\ UNCHANGED publicKeyCache
                    /\ callbacks' =
                         Append(callbacks,
                                Called(d.n, Listed(d.message, Text("[Decryption error]"), Null)))
               ELSE IF publicKey = Null
               THEN /\ UNCHANGED publicKeyCache
                    /\ callbacks' = Append(callbacks,
                                           Called(d.n, DecryptedMessage(d.message, Null)))
               ELSE /\ publicKeyCache' = [publicKeyCache EXCEPT
                           ![d.message.senderId] = base64ToBytes(publicKey)]
                    /\ callbacks' =
                         Append(callbacks,
                                Called(d.n, DecryptedMessage(d.message,
                                                            base64ToBytes(publicKey))))
            /\ UNCHANGED <<subscription, emitted>>
            /\ UNCHANGED <<config, apiState, messageState, cryptoState, deviceState,
                           currentUserId, keyPair, keyPairFor, collaboratorState,
                           randomState, call, trace, interfered>>

\* A service with E2E on the full adapter.
InitRealtime ==
    /\ Init
    /\ e2eEnabled
    /\ adapterMethods = FullAdapter

\* A user sets up keys, subscribes to the conversation "dm" and sends; the
\* wrappers of the messages wait for their lookups side by side.
NextRealtime ==
    \/ CanStart /\ \E userId \in Users : SetCurrentUser(userId)
    \/ SetupEncryption(Pin000000)
    \/ SetupEncrypted
    \/ SetupStoredPublicKey
    \/ SetupStoredBackup
    \/ SetupStoredLocal
    \/ Subscribe
    \/ /\ Len(messages) < MaxInbox
       /\ SendMessage("dm", Text("hi"))
    \/ SendGotConversation
    \/ SendGotPublicKey
    \/ SendStored
    \/ DeliveryGotPublicKey
    \/ Unsubscribe
    \/ Return

SpecRealtime == InitRealtime /\ [][NextRealtime]_vars

\* --------------------------------------------------------------- API server

\* The routes whose service method passes this.currentUserId to the adapter;
\* the handler of "sendMessage" awaits c.req.json() before it calls the service.
Routes == {"sendMessage", "listConversations", "markAsRead", "deleteConversation",
           "getQuota"}

BodyRoutes == {"sendMessage"}

Unauthenticated == Null

\* What extractAuth(c) answers: an AuthContext or null.
AuthContexts == {[userId |-> u] : u \in Users} \cup {Unauthenticated}

\* A request the router has received; adapterUserId is the user ID its service
\* method handed to the adapter.
NewRequest(route, auth) ==
    [route |-> route, auth |-> auth, pc |-> "extractAuth", adapterUserId |-> NoUser,
     status |-> 0]

RequestIds == 1..Len(requests)

\* router.use('*', authMiddleware): a request arrives and awaits extractAuth(c).
ReceiveRequest(route, auth) ==
    /\ Len(requests) < MaxRequests
    /\ requests' = Append(requests, NewRequest(route, auth))
    /\ UNCHANGED <<config, realtimeState, messageState, cryptoState, deviceState,
                   serviceState, collaboratorState, randomState, call, trace, interfered>>

\* The middleware after extractAuth: 401, or messaging.setCurrentUser(auth.userId)
\* on the shared service and next(). The handler runs up to its first await: a
\* body route awaits c.req.json(); the others call their service method, which
\* hands this.currentUserId to the adapter at once.
AuthMiddleware(r) ==
    /\ r \in RequestIds
    /\ requests[r].pc = "extractAuth"
    /\ CanInterleave
    /\ IF requests[r].auth = Unauthenticated
       THEN /\ requests' = [requests EXCEPT ![r].pc = "responded", ![r].status = 401]
            /\ UNCHANGED <<serviceState, interfered>>
       ELSE LET userId == requests[r].auth.userId
            IN  /\ IF currentUserId # userId
                   THEN /\ currentUserId' = userId
                        /\ keyPair' = Null
                        /\ keyPairFor' = NoUser
                        /\ publicKeyCache' = [u \in Users |-> Null]
                        /\ interfered' = (interfered \/ InFlight)
                   ELSE UNCHANGED <<serviceState, interfered>>
                /\ requests' =
                     IF requests[r].route \in BodyRoutes
                     THEN [requests EXCEPT ![r].pc = "json"]
                     ELSE [requests EXCEPT ![r].pc = "adapter",
                                           ![r].adapterUserId = userId]
    /\ UNCHANGED <<config, realtimeState, messageState, cryptoState, deviceState,
                   collaboratorState, randomState, call, trace>>

\* The bodies c.req.json() answers with.
RequestBodies == {[content |-> ""], [content |-> "hi"]}

\* messagesRoutes.post once c.req.json() has answered: 400 for an empty body,
\* else messaging.sendMessage, which (the server's service holds no key pair)
\* calls adapter.sendMessage(conversationId, this.currentUserId, ...).
PostMessageGotBody(r, body) ==
    /\ r \in RequestIds
    /\ requests[r].pc = "json"
    /\ requests' =
         IF body.content = ""
         THEN [requests EXCEPT ![r].pc = "responded", ![r].status = 400]
         ELSE IF currentUserId = NoUser
         THEN [requests EXCEPT ![r].pc = "responded", ![r].status = 500]
         ELSE [requests EXCEPT ![r].pc = "adapter",
                               ![r].adapterUserId = currentUserId]
    /\ UNCHANGED <<config, realtimeState, messageState, cryptoState, deviceState,
                   serviceState, collaboratorState, randomState, call, trace, interfered>>

\* The adapter answers the call of request r; a sent message is stored under the
\* senderId the adapter was handed.
AdapterAnswered(r) ==
    /\ r \in RequestIds
    /\ requests[r].pc = "adapter"
    /\ \E ok \in BOOLEAN :
         /\ requests' = [requests EXCEPT
                           ![r].pc = "responded",
                           ![r].status = IF ~ok THEN 500
                                         ELSE IF requests[r].route = "sendMessage"
                                         THEN 201 ELSE 200]
         /\ messages' =
              IF ok /\ requests[r].route = "sendMessage"
              THEN Append(messages, [conversationId |-> "dm",
                                     senderId |-> requests[r].adapterUserId,
                                     content |-> Text("hi")])
              ELSE messages
    /\ UNCHANGED <<config, realtimeState, cryptoState, deviceState,
                   serviceState, collaboratorState, randomState, call, trace, interfered>>

NextApi ==
    \/ \E route \in Routes, auth \in AuthContexts : ReceiveRequest(route, auth)
    \/ \E r \in RequestIds : AuthMiddleware(r)
    \/ \E r \in RequestIds, body \in RequestBodies : PostMessageGotBody(r, body)
    \/ \E r \in RequestIds : AdapterAnswered(r)

SpecApi == Init /\ [][NextApi]_vars

\* ------------------------------------------------------------------ claims

TraceFns == {trace[i].fn : i \in 1..Len(trace)}

StatusReturned ==
    /\ call.op = "getEncryptionStatus"
    /\ call.pc = "done"
    /\ call.error = "none"

\* The state table of the encryption status.
StateTable(local, backup, pub) ==
    IF local THEN (IF backup THEN "ready" ELSE "needs_pin_setup")
    ELSE IF backup THEN "has_backup"
    ELSE IF pub THEN "needs_regeneration"
    ELSE "needs_setup"

\* C1: with E2E enabled and an adapter that has getKeyBackup and getPublicKey,
\* a getEncryptionStatus during which the active user did not change returns
\* the state table's status of (local key pair, remote backup, remote public
\* key) of the active user, and "error" when no user is active.
C1_StatusFollowsStateTable ==
    (StatusReturned /\ e2eEnabled /\ ~interfered
        /\ Has("getKeyBackup") /\ Has("getPublicKey"))
    => call.result =
         IF currentUserId = NoUser THEN "error"
         ELSE StateTable(keyStorage[currentUserId] # Null,
                         keyBackups[currentUserId] # Null,
                         publicKeys[currentUserId] # Null)

C1_Witness ==
    /\ StatusReturned /\ e2eEnabled /\ ~interfered
    /\ Has("getKeyBackup") /\ Has("getPublicKey")
    /\ currentUserId # NoUser
    /\ keyStorage[currentUserId] = Null
    /\ keyBackups[currentUserId] = Null
    /\ publicKeys[currentUserId] # Null
    /\ call.result = "needs_regeneration"

\* C2: with a local key pair for the active user and an adapter without
\* getKeyBackup, getEncryptionStatus returns needs_pin_setup.
C2_NoBackupCapabilityNeedsPinSetup ==
    (StatusReturned /\ e2eEnabled /\ ~interfered /\ ~Has("getKeyBackup")
        /\ currentUserId # NoUser /\ keyStorage[currentUserId] # Null)
    => call.result = "needs_pin_setup"

\* C3: with E2E disabled getEncryptionStatus returns ready at once, with or
\* without an active user, having called neither the key store nor the adapter.
C3_DisabledIsReadyWithoutCalls ==
    (~e2eEnabled /\ call.op = "getEncryptionStatus")
    => /\ call.pc = "done"
       /\ call.result = "ready"
       /\ call.error = "none"
       /\ trace = <<>>

C3_Witness ==
    /\ ~e2eEnabled
    /\ call.op = "getEncryptionStatus"
    /\ call.pc = "done"
    /\ currentUserId = NoUser

StatusReads == {"loadKeyPair", "getKeyBackup", "getPublicKey"}

\* C4: no step of getEncryptionStatus changes the active user, the key pair
\* in memory, the public-key cache, the local key store or the directory's
\* public keys and backups, and the only calls it makes are the three reads.
C4_StatusIsReadOnly ==
    [][(call'.op = "getEncryptionStatus" /\ call' # call)
        => /\ UNCHANGED <<currentUserId, keyPair, publicKeyCache>>
           /\ UNCHANGED <<keyStorage, publicKeys, keyBackups>>
           /\ \A i \in 1..Len(trace') : trace'[i].fn \in StatusReads]_vars

C4_Witness ==
    /\ StatusReturned
    /\ TraceFns = StatusReads
    /\ call.result = "needs_regeneration"

\* C5: a setCurrentUser that changes the active user leaves no key pair in
\* memory and an empty public-key cache, so that with E2E enabled
\* isEncryptionReady is false and listMessages returns the stored content; a
\* key pair is in memory again only when an initializeEncryption,
\* setupEncryption or restoreEncryption returns true.
C5_SwitchingUserClearsKeys ==
    [][/\ (currentUserId' # currentUserId)
            => /\ keyPair' = Null
               /\ publicKeyCache' = [u \in Users |-> Null]
               /\ e2eEnabled => ~isEncryptionReady'
               /\ ListMessagesReturnsStored'
       /\ (keyPair = Null /\ keyPair' # Null)
            => /\ call'.op \in {"initializeEncryption", "setupEncryption",
                                "restoreEncryption"}
               /\ call'.pc = "done"
               /\ call'.result = "true"]_vars

C5_Witness ==
    /\ e2eEnabled
    /\ currentUserId = "bob"
    /\ keyPair = Null
    /\ publicKeyCache = [u \in Users |-> Null]
    /\ call.pc = "idle"
    /\ keyStorage["alice"] # Null
    /\ publicKeys["alice"] # Null
    /\ keyStorage["bob"] = Null

\* C6: a key pair in memory is the active user's: it was loaded, generated
\* or restored by a call started for the user who is active now.
C6_KeyPairIsTheActiveUsers ==
    keyPair # Null => keyPairFor = currentUserId

PinMethods == {"setupEncryption", "restoreEncryption"}

ValidationError == "PIN must be exactly 6 digits"

SixAsciiDigits(pin) == pin \in [1..6 -> Digits]

\* C7 as stated: a PIN that is not six ASCII digits is always rejected with
\* the validation error, before anything else has happened.
C7_MalformedPinIsAlwaysAValidationError ==
    (call.op \in PinMethods /\ ~SixAsciiDigits(call.pin))
    => /\ call.pc = "done"
       /\ call.error = ValidationError
       /\ trace = <<>>

\* C7, amended: with an active user a PIN that is not six ASCII digits is
\* rejected with the validation error, and with no active user the call
\* returns false; either way no key was generated and no crypto or
\* collaborator call was made.  "000000" passes validation.
C7_MalformedPinIsRejectedFirst ==
    /\ (call.op \in PinMethods /\ ~SixAsciiDigits(call.pin))
        => /\ call.pc = "done"
           /\ trace = <<>>
           /\ IF call.user = NoUser
              THEN call.result = "false" /\ call.error = "none"
              ELSE call.result = "none" /\ call.error = ValidationError
    /\ (call.op \in PinMethods /\ SixAsciiDigits(call.pin))
        => call.error # ValidationError

C7_Witness ==
    /\ call.op = "setupEncryption"
    /\ call.pin = PinAbcdef
    /\ call.pc = "done"
    /\ call.error = ValidationError
    /\ currentUserId # NoUser

SetupReturnedTrue ==
    /\ call.op = "setupEncryption"
    /\ call.pc = "done"
    /\ call.result = "true"

StoredKeyPair(kp) ==
    [publicKey |-> bytesToBase64(kp.publicKey), secretKey |-> bytesToBase64(kp.secretKey)]

BackupOpensTo(blob, pin, secretKey) ==
    IF blob = Null THEN FALSE ELSE decryptPrivateKeyWithPin(blob, pin) = secretKey

\* C8 as stated: when setupEncryption(pin) returns true the directory holds
\* the new public key and a backup that opens under pin to the new secret
\* key, and the local store and the memory hold the new key pair.
C8_SetupPublishesAndStoresTheKeyPair ==
    SetupReturnedTrue
    => /\ publicKeys[currentUserId] = bytesToBase64(call.keyPair.publicKey)
       /\ BackupOpensTo(keyBackups[currentUserId], call.pin, call.keyPair.secretKey)
       /\ keyStorage[currentUserId] = StoredKeyPair(call.keyPair)
       /\ keyPair = call.keyPair

\* C8, amended: when setupEncryption(pin) returns true for a user who stayed
\* active throughout, the local store and the memory hold the new key pair;
\* the directory holds the new public key if the adapter has storePublicKey,
\* and a backup that opens under pin to the new secret key if it has
\* storeKeyBackup.
C8_SetupStoresTheKeyPairAndPublishesWhatItCan ==
    (SetupReturnedTrue /\ ~interfered)
    => /\ keyStorage[currentUserId] = StoredKeyPair(call.keyPair)
       /\ keyPair = call.keyPair
       /\ call.keyPair = generateKeyPair(nextKey)
       /\ Has("storePublicKey")
            => publicKeys[currentUserId] = bytesToBase64(call.keyPair.publicKey)
       /\ Has("storeKeyBackup")
            => BackupOpensTo(keyBackups[currentUserId], call.pin, call.keyPair.secretKey)

C8_Witness ==
    /\ SetupReturnedTrue /\ ~interfered
    /\ adapterMethods = FullAdapter
    /\ nextKey = MaxKeys

\* C9: a restoreEncryption whose getKeyBackup reported rateLimited ends with
\* the rate-limit error, which is not the incorrect-PIN error, and has called
\* neither decryptPrivateKeyWithPin nor recordPinAttempt, with or without a
\* backup blob.
C9_RateLimitedRestoreStopsAtOnce ==
    (call.op = "restoreEncryption" /\ call.rateLimited)
    => /\ call.pc = "done"
       /\ call.error = "Too many attempts. Please try again in 15 minutes."
       /\ call.error # "Incorrect PIN"
       /\ TraceFns \cap {"decryptPrivateKeyWithPin", "recordPinAttempt"} = {}

C9_Witness ==
    /\ call.op = "restoreEncryption"
    /\ call.rateLimited
    /\ call.blob # Null
    /\ call.pc = "done"

FailedAttemptRecorded ==
    \E i \in 1..Len(trace) : trace[i] = Did("recordPinAttempt", "false")

\* C10 as stated: no restoreEncryption ends with the incorrect-PIN error
\* without recordPinAttempt(user, false) having been called.
C10_IncorrectPinIsAlwaysRecorded ==
    (call.op = "restoreEncryption" /\ call.error = "Incorrect PIN")
    => FailedAttemptRecorded

\* C10, amended: with an adapter that has recordPinAttempt, once the PIN has
\* failed to open the backup recordPinAttempt(user, false) is called, for the
\* active user, and the incorrect-PIN error is returned only after it; an
\* adapter without recordPinAttempt gets no report.
C10_IncorrectPinIsRecordedWhenTheAdapterCan ==
    (call.op = "restoreEncryption"
        /\ "decryptPrivateKeyWithPin" \in TraceFns
        /\ call.pc # "decryptPrivateKeyWithPin"
        /\ call.secretKey = Null)
    => /\ Has("recordPinAttempt") <=> FailedAttemptRecorded
       /\ call.pc \in {"recordPinAttempt", "done"}
       /\ call.pc = "done" => call.error \in {"Incorrect PIN", "adapter error"}
       /\ (call.pc = "recordPinAttempt" /\ ~interfered) => call.arg = currentUserId

C10_Witness ==
    /\ call.op = "restoreEncryption"
    /\ call.pc = "done"
    /\ call.error = "Incorrect PIN"
    /\ FailedAttemptRecorded
    /\ call.blob # Null

BackupUnavailable ==
    {"Key backup not supported by adapter", "No backup found on server"}

\* getKeyBackup of the restore in flight has answered (it did not throw).
DirectoryAnswered ==
    /\ call.op = "restoreEncryption"
    /\ "getKeyBackup" \in TraceFns
    /\ call.pc # "getKeyBackup"
    /\ ~(call.error = "adapter error" /\ Len(trace) = 1)

RestoreWellFormed ==
    /\ call.op = "restoreEncryption"
    /\ SixAsciiDigits(call.pin)
    /\ call.user # NoUser

NoDecryptionNoRecord ==
    TraceFns \cap {"decryptPrivateKeyWithPin", "recordPinAttempt"} = {}

\* C11 as stated: a restoreEncryption with a well-formed PIN ends with the
\* backup-unavailable error whenever the adapter has no getKeyBackup or the
\* directory answered without a blob, and has neither decrypted nor recorded.
C11_NoBackupIsAlwaysBackupUnavailable ==
    (RestoreWellFormed
        /\ (~Has("getKeyBackup") \/ (DirectoryAnswered /\ call.blob = Null)))
    => /\ call.pc = "done"
       /\ call.error \in BackupUnavailable
       /\ NoDecryptionNoRecord

\* C11, amended: the same when the directory does not signal the rate limit;
\* a rate-limited answer without a blob ends with the rate-limit error.  In
\* every case nothing was decrypted and no PIN attempt was recorded, and the
\* blob looked at is the directory's entry of the active user.
C11_NoBackupIsBackupUnavailableUnlessRateLimited ==
    /\ (RestoreWellFormed /\ ~Has("getKeyBackup"))
        => /\ call.pc = "done"
           /\ call.error = "Key backup not supported by adapter"
           /\ trace = <<>>
    /\ (RestoreWellFormed /\ DirectoryAnswered /\ call.blob = Null)
        => /\ call.pc = "done"
           /\ call.error = IF call.rateLimited THEN RateLimitedError
                           ELSE "No backup found on server"
           /\ NoDecryptionNoRecord
    /\ (RestoreWellFormed /\ DirectoryAnswered /\ ~interfered)
        => call.blob = keyBackups[currentUserId]

C11_Witness ==
    /\ RestoreWellFormed
    /\ DirectoryAnswered
    /\ ~interfered
    /\ call.error = "No backup found on server"
    /\ keyBackups[currentUserId] = Null
    /\ publicKeys[currentUserId] # Null

RestoreReturnedTrue ==
    /\ call.op = "restoreEncryption"
    /\ call.pc = "done"
    /\ call.result = "true"

SuccessfulAttemptRecorded ==
    \E i \in 1..Len(trace) : trace[i] = Did("recordPinAttempt", "true")

\* The key pair made of the secret key in the blob and its recomputed public key.
RecoveredKeyPair(blob, pin) ==
    LET secretKey == decryptPrivateKeyWithPin(blob, pin)
    IN  [publicKey |-> publicKeyFromPrivate(secretKey), secretKey |-> secretKey]

RestoredFromBackup ==
    /\ keyBackups[currentUserId] # Null
    /\ decryptPrivateKeyWithPin(keyBackups[currentUserId], call.pin) # Null
    /\ keyPair = RecoveredKeyPair(keyBackups[currentUserId], call.pin)
    /\ keyStorage[currentUserId] = StoredKeyPair(keyPair)

\* C12 as stated: when restoreEncryption(pin) returns true a successful PIN
\* attempt has been reported, and the memory and the local store hold the
\* secret key of the active user's backup with its recomputed public key.
C12_RestoreAlwaysReportsAndLoads ==
    RestoreReturnedTrue
    => /\ SuccessfulAttemptRecorded
       /\ RestoredFromBackup

\* C12, amended: when restoreEncryption(pin) returns true for a user who
\* stayed active throughout, the memory and the local store hold the secret
\* key of that user's backup with its recomputed public key; the successful
\* attempt has been reported exactly when the adapter has recordPinAttempt,
\* and no failed attempt was reported.
C12_RestoreLoadsAndReportsWhenTheAdapterCan ==
    (RestoreReturnedTrue /\ ~interfered)
    => /\ Has("recordPinAttempt") <=> SuccessfulAttemptRecorded
       /\ ~FailedAttemptRecorded
       /\ RestoredFromBackup

C12_Witness ==
    /\ RestoreReturnedTrue
    /\ ~interfered
    /\ SuccessfulAttemptRecorded
    /\ keyPair # Null
    /\ currentUserId = "bob"

\* On the second device a restoreEncryption for the user, with the PIN, of
\* the setupEncryption completed on the first device has returned true.
RestoredOnSecondDevice ==
    /\ firstDevice # Null
    /\ RestoreReturnedTrue
    /\ call.user = firstDevice.user
    /\ call.pin = firstDevice.pin

\* C13 as stated: the second device then holds the key pair setupEncryption
\* generated on the first device, and its public key is the one the directory
\* holds for the user.
C13_SecondDeviceRecoversAndMatchesTheDirectory ==
    (RestoredOnSecondDevice /\ ~interfered /\ ~firstDevice.interfered)
    => /\ keyPair = firstDevice.keyPair
       /\ publicKeys[currentUserId] = bytesToBase64(keyPair.publicKey)

\* C13, amended: the second device then holds the key pair setupEncryption
\* generated on the first device, in memory and in its own key storage; its
\* public key is the one the directory holds for the user when the adapter
\* has storePublicKey.  Both calls ran for a user who stayed active.
C13_SecondDeviceRecoversTheKeyPair ==
    (RestoredOnSecondDevice /\ ~interfered /\ ~firstDevice.interfered)
    => /\ keyPair = firstDevice.keyPair
       /\ keyPair \in {generateKeyPair(n) : n \in 1..nextKey}
       /\ keyStorage[currentUserId] = firstDevice.keyStorage[currentUserId]
       /\ Has("storePublicKey")
            => publicKeys[currentUserId] = bytesToBase64(keyPair.publicKey)

C13_Witness ==
    /\ RestoredOnSecondDevice /\ ~interfered /\ ~firstDevice.interfered
    /\ Has("storePublicKey")
    /\ keyPair = generateKeyPair(MaxKeys)
    /\ publicKeys[currentUserId] = bytesToBase64(keyPair.publicKey)

InitializeReturned ==
    /\ call.op = "initializeEncryption"
    /\ call.pc = "done"
    /\ call.error = "none"

\* C14: with E2E enabled initializeEncryption returns true exactly when a key
\* pair is in memory as it returns, and a key pair stored for the active
\* user is then the one in memory.  The call ran for a user who stayed
\* active, and a key pair in memory is this user's own.
C14_InitializeResultSaysWhetherKeysAreLoaded ==
    (InitializeReturned /\ e2eEnabled /\ ~interfered
        /\ (keyPair # Null => keyPairFor = currentUserId))
    => /\ call.result = "true" <=> keyPair # Null
       /\ (currentUserId # NoUser /\ keyStorage[currentUserId] # Null)
            => keyStorage[currentUserId] = StoredKeyPair(keyPair)

\* C15: with E2E enabled, when getEncryptionStatus returns ready a key pair
\* is loaded in memory (isEncryptionReady is true).  The adapter has
\* getKeyBackup and the active user did not change during the call.
C15_ReadyMeansKeysAreLoaded ==
    (StatusReturned /\ e2eEnabled /\ ~interfered /\ Has("getKeyBackup")
        /\ call.result = "ready")
    => (isEncryptionReady /\ keyPair # Null)

LookupReturned ==
    /\ call.op = "getPublicKey"
    /\ call.pc = "done"
    /\ call.error = "none"

\* C16: within a session a lookup returns the cached key of the user without
\* a query when there is one and queries the directory otherwise; a query
\* that finds no key leaves the cache as it is and returns null, and a query
\* that finds a key caches and returns it.  No cache entry stands for an
\* absent key.
C16_CacheHoldsNoNegativeResult ==
    [][/\ (call.pc = "idle" /\ call'.op = "getPublicKey")
            => IF publicKeyCache[call'.arg] # Null
               THEN /\ call'.pc = "done"
                    /\ call'.value = publicKeyCache[call'.arg]
                    /\ trace' = <<>>
               ELSE Has("getPublicKey")
                    => /\ call'.pc = "getPublicKey"
                       /\ trace' = <<Did("getPublicKey", "n/a")>>
       /\ (call.op = "getPublicKey" /\ call.pc = "getPublicKey"
                /\ call'.pc = "done" /\ call'.error = "none")
            => IF publicKeys[call.arg] = Null
               THEN /\ publicKeyCache' = publicKeyCache
                    /\ call'.result = "null"
               ELSE /\ publicKeyCache'[call.arg] = base64ToBytes(publicKeys[call.arg])
                    /\ call'.value = publicKeyCache'[call.arg]
       /\ \A u \in Users :
            publicKeyCache'[u] # Null
            => publicKeyCache'[u] \in {generateKeyPair(n).publicKey : n \in 1..nextKey'}]_vars

\* A lookup of a peer's key that is answered from the cache.
C16_Witness ==
    /\ LookupReturned
    /\ trace = <<>>
    /\ call.result = "value"
    /\ call.arg # currentUserId
    /\ call.value = base64ToBytes(publicKeys[call.arg])

\* C17: a public-key lookup during which setCurrentUser switched to another
\* user does not write its result into the cache of the new session.
C17_AbandonedLookupDoesNotFillTheCache ==
    [][(call.op = "getPublicKey" /\ call'.op = "getPublicKey" /\ call' # call
            /\ interfered)
        => publicKeyCache' = publicKeyCache]_vars

Opened == roundTrip # Null /\ roundTrip.pc = "opened"

\* C19: what the recipient opens, with the sender's public key and its own
\* secret key, of an envelope as encryptMessage made it is the plaintext,
\* the empty one included; sender and recipient may hold the same key pair.
C19_EncryptThenDecryptIsThePlaintext ==
    (Opened /\ ~roundTrip.damaged /\ roundTrip.secretKey = roundTrip.recipient.secretKey)
    => roundTrip.result = roundTrip.plaintext

C19_Witness ==
    /\ Opened /\ ~roundTrip.damaged
    /\ roundTrip.secretKey = roundTrip.recipient.secretKey
    /\ roundTrip.sender # roundTrip.recipient
    /\ roundTrip.plaintext = Text("")
    /\ roundTrip.result = Text("")

\* C20: decryptMessage returns null, and raises nothing, when the secret key
\* is not the recipient's or the envelope is cut short, extended, altered or
\* not base64.
C20_DecryptFailsClosed ==
    (Opened /\ (roundTrip.damaged
                    \/ roundTrip.secretKey # roundTrip.recipient.secretKey))
    => roundTrip.result = Null

C20_Witness ==
    /\ Opened
    /\ roundTrip.envelope = [text |-> "not base64"]
    /\ roundTrip.secretKey = roundTrip.recipient.secretKey
    /\ roundTrip.result = Null

SecretKeys == {generateKeyPair(n).secretKey : n \in 1..nextKey}

\* The base64 string of a generated public key.
IsPublicKeyString(v) ==
    \E n \in 1..nextKey : v = bytesToBase64(generateKeyPair(n).publicKey)

\* base64 of salt || nonce || secretbox: the salt and the nonce are in the
\* clear and are no keys, the secret key is sealed under a key derived from
\* a six-digit PIN and that salt.
IsPinEncryptedBlob(v) ==
    /\ DOMAIN v = {"b64"}
    /\ DOMAIN v.b64 = {"salt", "nonce", "encrypted"}
    /\ v.b64.salt \notin SecretKeys
    /\ v.b64.nonce \notin SecretKeys
    /\ DOMAIN v.b64.encrypted = {"nonce", "key", "msg"}
    /\ DOMAIN v.b64.encrypted.key = {"pin", "salt"}
    /\ SixAsciiDigits(v.b64.encrypted.key.pin)
    /\ v.b64.encrypted.key.salt = v.b64.salt

\* base64 of nonce || nacl.box of a message body.
IsBoxedMessage(v) ==
    /\ DOMAIN v = {"b64"}
    /\ DOMAIN v.b64 = 1..2
    /\ DOMAIN v.b64[1] = {"nonce"}
    /\ DOMAIN v.b64[2] = {"tag", "body"}
    /\ v.b64[2].body \in {decodeUTF8(body) : body \in MessageBodies}

\* The content of a message: the body as the caller gave it, or the JSON of
\* a dual envelope.
IsMessageContent(v) ==
    \/ v \in MessageBodies
    \/ /\ DOMAIN v = {"json"}
       /\ DOMAIN v.json = {"s", "r", "recipientId"}
       /\ IsBoxedMessage(v.json.s)
       /\ IsBoxedMessage(v.json.r)
       /\ v.json.recipientId \in {"alice", "bob", "carol"}

\* C18: what the adapter holds and what it is being handed is a public key,
\* a PIN-encrypted backup blob, a message content or a PIN attempt flag, and
\* never a secret key or its base64 string; the secret keys are in the local
\* key storage and in memory.
C18_SecretKeysStayOnTheDevice ==
    /\ \A u \in Users :
         /\ publicKeys[u] # Null => IsPublicKeyString(publicKeys[u])
         /\ keyBackups[u] # Null => IsPinEncryptedBlob(keyBackups[u])
         /\ keyStorage[u] # Null => base64ToBytes(keyStorage[u].secretKey) \in SecretKeys
    /\ \A i \in 1..Len(messages) : IsMessageContent(messages[i].content)
    /\ call.pc = "sendMessage" => IsMessageContent(call.stored)
    /\ call.pc = "storeKeyBackup" => IsPinEncryptedBlob(call.blob)
    /\ call.pc = "storePublicKey"
         => IsPublicKeyString(bytesToBase64(call.keyPair.publicKey))
    /\ \A i \in 1..Len(trace) :
         trace[i].fn = "recordPinAttempt" => trace[i].success \in {"true", "false"}
    /\ keyPair # Null => keyPair.secretKey \in SecretKeys

C18_Witness ==
    /\ Len(messages) = MaxMessages
    /\ DOMAIN messages[1].content = {"json"}
    /\ \E u \in Users : keyBackups[u] # Null /\ publicKeys[u] # Null
    /\ call.op = "restoreEncryption"
    /\ call.result = "true"

DualOpened == dualTrip # Null /\ dualTrip.pc = "opened"

\* The content is decoded with the sender's ID and public key.
FromSender ==
    /\ dualTrip.senderId = userIdOf(dualTrip.sender)
    /\ dualTrip.senderPublicKey = generateKeyPair(dualTrip.sender).publicKey

\* The reader is the sender, with the sender's secret key.
ReadBySender ==
    /\ FromSender
    /\ dualTrip.userId = userIdOf(dualTrip.sender)
    /\ dualTrip.secretKey = generateKeyPair(dualTrip.sender).secretKey

\* The reader is the recipient, with the recipient's secret key.
ReadByRecipient ==
    /\ FromSender
    /\ dualTrip.userId = userIdOf(dualTrip.recipient)
    /\ dualTrip.secretKey = generateKeyPair(dualTrip.recipient).secretKey

\* C21: the JSON of the dual envelope a sender makes for another party is
\* decoded to the plaintext by the sender and by the recipient, each with
\* its own secret key and the sender's public key.
C21_DualEnvelopeRoundTrip ==
    (DualOpened /\ dualTrip.format = "dual" /\ dualTrip.sender # dualTrip.recipient
        /\ (ReadBySender \/ ReadByRecipient))
    => dualTrip.result = dualTrip.plaintext

C21_Witness ==
    /\ DualOpened /\ dualTrip.format = "dual" /\ dualTrip.sender # dualTrip.recipient
    /\ ReadBySender
    /\ dualTrip.plaintext = Text("see you at 8")
    /\ dualTrip.result = Text("see you at 8")

\* The content is the JSON of an object with non-empty s and r.
ParsesAsDual ==
    /\ DOMAIN dualTrip.content = {"json"}
    /\ dualTrip.content.json.s \notin {Null, encodeBase64(<<>>)}
    /\ dualTrip.content.json.r \notin {Null, encodeBase64(<<>>)}

\* What the given field of the content opens to with the public key and the
\* secret key the decoder was given.
FieldOpensTo(field) ==
    decryptMessage(field, dualTrip.senderPublicKey, dualTrip.secretKey)

\* C22: of a content that parses as a dual envelope, decryptMessageContent
\* returns what field s opens to when senderId is the current user's ID and
\* what field r opens to otherwise; when that field does not open the result
\* is null, whatever the other field would open to.
C22_SelectsTheFieldByTheSender ==
    (DualOpened /\ ParsesAsDual)
    => dualTrip.result =
         IF dualTrip.senderId = dualTrip.userId
         THEN FieldOpensTo(dualTrip.content.json.s)
         ELSE FieldOpensTo(dualTrip.content.json.r)

\* The recipient's key opens field r, but the message is decoded as the
\* reader's own: field s is selected and the result is null.
C22_Witness ==
    /\ DualOpened /\ ParsesAsDual
    /\ dualTrip.format = "dual"
    /\ dualTrip.senderId = dualTrip.userId
    /\ FieldOpensTo(dualTrip.content.json.s) = Null
    /\ FieldOpensTo(dualTrip.content.json.r) = dualTrip.plaintext
    /\ dualTrip.result = Null

\* The recipient decodes with its own secret key and the sender's public key.
RecipientDecodes ==
    /\ dualTrip.userId = userIdOf(dualTrip.recipient)
    /\ dualTrip.secretKey = generateKeyPair(dualTrip.recipient).secretKey
    /\ dualTrip.senderPublicKey = generateKeyPair(dualTrip.sender).publicKey

\* C23: a content that is one encryptMessage envelope for the recipient is
\* decoded by decryptMessageContent, for the recipient with the sender's
\* public key, to the plaintext; and every content that does not parse as
\* an object with non-empty s and r is decoded as such a single envelope.
C23_LegacyContentIsDecoded ==
    /\ (DualOpened /\ dualTrip.format = "legacy" /\ RecipientDecodes)
         => dualTrip.result = dualTrip.plaintext
    /\ (DualOpened /\ ~ParsesAsDual)
         => dualTrip.result = FieldOpensTo(dualTrip.content)

C23_Witness ==
    /\ DualOpened /\ dualTrip.format = "legacy" /\ RecipientDecodes
    /\ dualTrip.sender # dualTrip.recipient
    /\ dualTrip.senderId = userIdOf(dualTrip.sender)
    /\ ~ParsesAsDual
    /\ dualTrip.plaintext = Text("hi")
    /\ dualTrip.result = Text("hi")

\* A field of a dual envelope as createEncryptedContent made it was opened.
FieldOpened == DualOpened /\ dualTrip.format = "dual" /\ dualTrip.result # Null

SenderSecretKey == generateKeyPair(dualTrip.sender).secretKey

RecipientSecretKey == generateKeyPair(dualTrip.recipient).secretKey

\* C24 as claimed: field s opens only with the sender's secret key and field
\* r only with the recipient's, whatever the public key, and what opens is
\* the plaintext.
C24_EachFieldOpensWithOneSecretKeyOnly ==
    FieldOpened
    => /\ dualTrip.senderId = dualTrip.userId => dualTrip.secretKey = SenderSecretKey
       /\ dualTrip.senderId # dualTrip.userId => dualTrip.secretKey = RecipientSecretKey
       /\ dualTrip.result = dualTrip.plaintext

\* C24, amended: field s opens only with the sender's secret key and field r
\* only with the recipient's or the sender's secret key; no third party's
\* secret key opens either, whatever the public key, and what opens is the
\* plaintext.
C24_FieldsOpenForSenderAndRecipientOnly ==
    FieldOpened
    => /\ dualTrip.senderId = dualTrip.userId => dualTrip.secretKey = SenderSecretKey
       /\ dualTrip.senderId # dualTrip.userId
            => dualTrip.secretKey \in {RecipientSecretKey, SenderSecretKey}
       /\ dualTrip.result = dualTrip.plaintext

\* The sender's secret key, with the recipient's public key, opens field r.
C24_Witness ==
    /\ FieldOpened
    /\ dualTrip.sender # dualTrip.recipient
    /\ dualTrip.senderId # dualTrip.userId
    /\ dualTrip.secretKey = SenderSecretKey
    /\ dualTrip.senderPublicKey = generateKeyPair(dualTrip.recipient).publicKey
    /\ dualTrip.result = dualTrip.plaintext

BackupOpened == pinTrip # Null /\ pinTrip.pc = "opened"

\* C25: the backup encryptPrivateKeyWithPin makes of a secret key under a
\* six-digit PIN is opened by decryptPrivateKeyWithPin, with that PIN, to
\* the secret key.
C25_BackupOpensWithItsPin ==
    (BackupOpened /\ ~pinTrip.damaged /\ ValidPin(pinTrip.pin)
        /\ pinTrip.tried = pinTrip.pin)
    => pinTrip.result = pinTrip.secretKey

C25_Witness ==
    /\ BackupOpened /\ ~pinTrip.damaged
    /\ pinTrip.pin = Pin123456
    /\ pinTrip.tried = Pin123456
    /\ pinTrip.secretKey = generateKeyPair(2).secretKey
    /\ pinTrip.result = generateKeyPair(2).secretKey

\* The backup as encryptPrivateKeyWithPin made it.
CreatedBackup ==
    encryptPrivateKeyWithPin(pinTrip.secretKey, pinTrip.pin, pinTrip.salt, pinTrip.nonce)

\* restoreEncryption has fetched that backup and was called with another PIN
\* than the one it was made with.
WrongPinRestore ==
    /\ call.op = "restoreEncryption"
    /\ call.blob = CreatedBackup
    /\ call.pin # pinTrip.pin

\* C26: of a backup made with another PIN decryptPrivateKeyWithPin returns
\* null, not a key and not an exception; a restoreEncryption that fetched the
\* backup and was called with another PIN does not return true, and no step
\* of it loads a key pair into the service or writes one to the key storage.
C26_WrongPinOpensNothing ==
    /\ []((BackupOpened /\ ~pinTrip.damaged /\ pinTrip.tried # pinTrip.pin)
            => pinTrip.result = Null)
    /\ [](WrongPinRestore
            => /\ call.secretKey = Null
               /\ call.result # "true"
               /\ call.error \in {"none", "Incorrect PIN", "adapter error", RateLimitedError})
    /\ [][WrongPinRestore => (keyPair' = keyPair /\ keyStorage' = keyStorage)]_vars

C26_Witness ==
    /\ BackupOpened /\ ~pinTrip.damaged
    /\ pinTrip.tried # pinTrip.pin
    /\ pinTrip.result = Null
    /\ WrongPinRestore
    /\ \E i \in 1..Len(trace) : trace[i].fn = "decryptPrivateKeyWithPin"
    /\ call.pc = "done"
    /\ call.error = "Incorrect PIN"
    /\ keyPair = Null
    /\ keyStorage[call.user] = Null

Placeholders ==
    {Text("[Unable to decrypt: sender key not found]"),
     Text("[Decryption error]"),
     Text("[Unable to decrypt message]")}

\* The messages the adapter holds for the method in flight: those of the
\* listed conversation.
MessagesOf(conversationId) ==
    SelectSeq(messages, LAMBDA m : m.conversationId = conversationId)

\* listMessages or the onNewMessage callback path has delivered, on a service
\* with a key pair loaded.
Delivered ==
    /\ call.op \in {"listMessages", "onNewMessage"}
    /\ call.pc = "done"
    /\ call.error = "none"
    /\ keyPair # Null

\* The entry is the message with a placeholder for its content, or with its
\* decrypted content and the stored content as contentEncrypted.
PlaceholderOrDecrypted(entry, message) ==
    /\ entry.conversationId = message.conversationId
    /\ entry.senderId = message.senderId
    /\ \/ entry.content \in Placeholders /\ entry.contentEncrypted = Null
       \/ /\ entry.content \in InboxBodies
          /\ entry.contentEncrypted = message.content
          /\ DOMAIN message.content = {"json"}

\* The sender's key is not in the directory, or the content is no envelope.
CannotBeDecrypted(message) ==
    \/ publicKeys[message.senderId] = Null
    \/ ~Has("getPublicKey")
    \/ DOMAIN message.content # {"json"}

\* C27: listMessages throws only what adapter.listMessages threw, and the
\* onNewMessage callback path throws nothing; with a key pair loaded every
\* message of the list is returned, with a placeholder for its content when
\* the sender's key is missing, the content does not decrypt or the lookup
\* threw, and with its decrypted content otherwise.
C27_DecryptionFailureIsAPlaceholder ==
    /\ (call.op \in {"listMessages", "onNewMessage"} /\ call.error # "none")
         => /\ call.op = "listMessages"
            /\ call.error = "adapter error"
            /\ \A i \in 1..Len(trace) : trace[i].fn # "getPublicKey"
    /\ (Delivered /\ call.op = "listMessages")
         => LET result == MessagesOf(call.conversationId)
            IN  /\ Len(call.value) = Len(result)
                /\ \A i \in 1..Len(result) :
                     /\ PlaceholderOrDecrypted(call.value[i], result[i])
                     /\ CannotBeDecrypted(result[i])
                          => call.value[i].content \in Placeholders
    /\ (Delivered /\ call.op = "onNewMessage")
         => /\ Len(call.value) = 1
            /\ \E i \in 1..Len(messages) :
                 /\ PlaceholderOrDecrypted(call.value[1], messages[i])
                 /\ CannotBeDecrypted(messages[i])
                      => call.value[1].content \in Placeholders

\* A list of two messages: one comes with a placeholder, the other decrypted.
C27_Witness ==
    /\ Delivered /\ call.op = "listMessages"
    /\ Len(call.value) = 2
    /\ call.value[1].content \in Placeholders
    /\ call.value[2].content = Text("hi")
    /\ call.value[2].contentEncrypted = messages[2].content

\* The stored content is the JSON of a dual envelope.
IsEnvelope(content) == DOMAIN content = {"json"}

\* The nonce-prefixed box inside a field of a dual envelope.
BoxOf(field) == decodeBase64(field)[2]

\* The plaintext a dual envelope was made of.
PlaintextOf(content) == encodeUTF8(BoxOf(content.json.s).body)

\* No key rotation since the message was sent: the directory holds the public
\* key of the secret key the sender sealed with, and the reader's loaded key
\* pair is the one the reader's field was sealed for.
KeysAsWhenSent(message) ==
    LET forSender == BoxOf(message.content.json.s).tag.key
        forRecipient == BoxOf(message.content.json.r).tag.key
    IN  /\ publicKeys[message.senderId] # Null
        /\ {base64ToBytes(publicKeys[message.senderId]).pk} = forSender
        /\ IF currentUserId = message.senderId
           THEN {keyPair.secretKey.sk} = forSender
           ELSE forSender \cup {keyPair.secretKey.sk} = forRecipient

\* C28: a message sent encrypted in the two-party conversation is listed,
\* for the sender and for the recipient with their key pairs loaded and no
\* key rotation in between, with the plaintext it was sent with as content,
\* the empty plaintext included (unless the key lookup itself failed).
C28_ListReturnsWhatWasSent ==
    (Delivered /\ call.op = "listMessages" /\ currentUserId \in Users)
    => LET result == MessagesOf(call.conversationId)
       IN  \A i \in 1..Len(result) :
             (IsEnvelope(result[i].content) /\ KeysAsWhenSent(result[i])
                 /\ call.value[i].content # Text("[Decryption error]"))
             => call.value[i].content = PlaintextOf(result[i].content)

\* sendMessage, called with E2E enabled and a key pair loaded for a
\* conversation with exactly one other participant, is handing the content
\* to the adapter or has returned the message.
SendsToOneRecipient ==
    /\ call.op = "sendMessage"
    /\ e2eEnabled
    /\ keyPair # Null
    /\ getConversation(call.conversationId) # Null
    /\ Cardinality(getConversation(call.conversationId).participants \ {call.user}) = 1
    /\ \/ call.pc = "sendMessage"
       \/ call.pc = "done" /\ call.result = "message"

\* The content is the JSON of {s, r, recipientId}: s is the plaintext boxed
\* by the sender for itself, r the plaintext boxed by the sender for the
\* recipient's published key.
IsDualEnvelopeFor(content, plaintext, recipientId) ==
    /\ IsEnvelope(content)
    /\ DOMAIN content.json = {"s", "r", "recipientId"}
    /\ content.json.recipientId = recipientId
    /\ BoxOf(content.json.s).body = decodeUTF8(plaintext)
    /\ BoxOf(content.json.r).body = decodeUTF8(plaintext)
    /\ BoxOf(content.json.s).tag.key = {keyPair.secretKey.sk}
    /\ publicKeys[recipientId] # Null
    /\ BoxOf(content.json.r).tag.key
         = {keyPair.secretKey.sk, base64ToBytes(publicKeys[recipientId]).pk}

\* C29: with E2E enabled, a key pair loaded and exactly one other
\* participant, what sendMessage hands to the adapter is the JSON of the dual
\* envelope of the plaintext for that participant; the adapter stores it, and
\* the returned Message has the plaintext as content and the stored string as
\* contentEncrypted.
C29_SendStoresTheEnvelopeAndReturnsThePlaintext ==
    (SendsToOneRecipient /\ ~interfered)
    => LET recipientId ==
               CHOOSE id \in getConversation(call.conversationId).participants \ {call.user} : TRUE
       IN  /\ IsDualEnvelopeFor(call.stored, call.content, recipientId)
           /\ call.pc = "done"
                => /\ messages[Len(messages)].content = call.stored
                   /\ call.value.content = call.content
                   /\ call.value.contentEncrypted = call.stored

C29_Witness ==
    /\ SendsToOneRecipient
    /\ call.pc = "done"
    /\ call.user = "alice"
    /\ call.stored.json.recipientId = "bob"
    /\ call.value.content = Text("hi")
    /\ call.value.contentEncrypted = messages[1].content

\* C30: with E2E enabled, what sendMessage hands to the adapter, and what
\* the adapter stores, is the JSON of an encrypted envelope and not the
\* plaintext, whether or not a key pair is loaded and whatever the number of
\* other participants; otherwise the send fails.
C30_NoPlaintextToTheAdapterWithE2E ==
    e2eEnabled
    => /\ (call.op = "sendMessage" /\ call.pc = "sendMessage")
            => (IsEnvelope(call.stored) /\ call.stored # call.content)
       /\ \A i \in 1..Len(messages) : IsEnvelope(messages[i].content)

\* sendMessage is in flight, with E2E and a key pair, for a conversation whose
\* one other participant has no public key in the Key Directory.
RecipientHasNoKey ==
    /\ call.op = "sendMessage"
    /\ e2eEnabled
    /\ keyPair # Null
    /\ getConversation(call.conversationId) # Null
    /\ LET otherParticipants == getConversation(call.conversationId).participants \ {call.user}
       IN  /\ Cardinality(otherParticipants) = 1
           /\ \A id \in otherParticipants : id \in Users /\ publicKeys[id] = Null

\* sendMessage is in flight for a conversation the adapter does not know.
ConversationUnknown ==
    /\ call.op = "sendMessage"
    /\ getConversation(call.conversationId) = Null

\* C31: a sendMessage with E2E and a key pair to a two-party conversation
\* whose other participant has no public key does not reach the adapter's
\* sendMessage and ends with an error; a sendMessage to a conversation the
\* adapter does not know ends with an error; in both the adapter stores no
\* message, so that there is none to notify subscribers of.
C31_FailedSendStoresNothing ==
    /\ [](RecipientHasNoKey => call.pc # "sendMessage")
    /\ []((RecipientHasNoKey \/ ConversationUnknown)
            => /\ call.result # "message"
               /\ call.pc = "done" => call.error # "none")
    /\ [][(RecipientHasNoKey \/ ConversationUnknown) => messages' = messages]_vars

C31_Witness ==
    /\ RecipientHasNoKey
    /\ call.pc = "done"
    /\ call.error = "Recipient has not set up encryption"
    /\ \E i \in 1..Len(trace) : trace[i].fn = "getPublicKey"
    /\ messages = <<>>
    /\ requests = <<>>
    /\ subscription = "none"
    /\ emitted = 0
    /\ deliveries = {}
    /\ callbacks = <<>>

\* The secret key sealed inside a backup blob.
BackedUpSecretKey(blob) == base64ToBytes(blob).encrypted.msg

\* No setupEncryption is at work: none was started, or it has returned or
\* thrown.
NoSetupAtWork == call.op # "setupEncryption" \/ call.pc = "done"

\* C32: on a Key Directory that stores public keys and backups, after any
\* sequence of successful and failed setups the directory's public key of a
\* user is the public key of the secret key inside that user's backup blob:
\* a setupEncryption that failed has changed neither.
C32_SetupIsAllOrNothing ==
    (Has("storePublicKey") /\ Has("storeKeyBackup") /\ NoSetupAtWork)
    => \A u \in Users :
         IF publicKeys[u] = Null THEN keyBackups[u] = Null
         ELSE /\ keyBackups[u] # Null
              /\ base64ToBytes(publicKeys[u])
                   = publicKeyFromPrivate(BackedUpSecretKey(keyBackups[u]))

\* A step of restoreEncryption other than the one that returns true.
RestoreStepNotSucceeding ==
    /\ call'.op = "restoreEncryption"
    /\ call' # call
    /\ ~(call'.pc = "done" /\ call'.result = "true")

\* C33: no step of a restoreEncryption but the one that returns true changes
\* the in-memory key pair, the public-key cache, the Local Key Store or the
\* directory's public keys and backup blobs; a restore that fails, whatever
\* the failure, leaves all that getEncryptionStatus reads as it was.
C33_FailedRestoreChangesNothing ==
    [][RestoreStepNotSucceeding
        => UNCHANGED <<keyPair, publicKeyCache, keyStorage, publicKeys, keyBackups>>]_vars

\* A restore with a wrong PIN has failed on a service that holds a key pair.
C33_Witness ==
    /\ call.op = "restoreEncryption"
    /\ call.pc = "done"
    /\ call.error = "Incorrect PIN"
    /\ ~interfered
    /\ keyPair # Null
    /\ keyStorage[call.user] # Null
    /\ keyBackups[call.user] # Null

\* C34: each authenticated HTTP request acts as its own user: with two requests
\* of different users in flight on the shared MessagingService, every adapter
\* call made for a request (sendMessage senderId, listConversations userId,
\* markAsRead, deleteConversation, getQuota) uses that request's authenticated
\* user ID, never the other request's.
C34_RequestActsAsItsOwnUser ==
    \A r \in RequestIds :
        requests[r].adapterUserId # NoUser
            => /\ requests[r].auth # Unauthenticated
               /\ requests[r].adapterUserId = requests[r].auth.userId

\* Two requests of different users are in flight and both reached the adapter.
C34_Witness ==
    \E r1, r2 \in RequestIds :
        /\ requests[r1].auth # Unauthenticated
        /\ requests[r2].auth # Unauthenticated
        /\ requests[r1].auth # requests[r2].auth
        /\ requests[r1].route = "sendMessage"
        /\ requests[r1].pc = "adapter"
        /\ requests[r2].pc = "adapter"

\* A step of the setupEncryption in flight.
SetupStep == call.op = "setupEncryption" /\ call' # call

\* The step writes to no collaborator entry of a user other than userId.
WritesOnlyUnder(userId) ==
    \A u \in Users \ {userId} :
        /\ publicKeys'[u] = publicKeys[u]
        /\ keyBackups'[u] = keyBackups[u]
        /\ keyStorage'[u] = keyStorage[u]

\* The secret key a user's Local Key Store entry or backup blob holds is the one
\* of another user's directory public key.
CrossPaired(u, v) ==
    /\ publicKeys[u] # Null
    /\ \/ /\ keyStorage[v] # Null
          /\ publicKeyFromPrivate(base64ToBytes(keyStorage[v].secretKey))
                = base64ToBytes(publicKeys[u])
       \/ /\ keyBackups[v] # Null
          /\ publicKeyFromPrivate(BackedUpSecretKey(keyBackups[v]))
                = base64ToBytes(publicKeys[u])

\* C35: one setupEncryption call writes its public key, its backup blob and its
\* Local Key Store entry under the user that was active when it started, also
\* when setCurrentUser is invoked with another ID while the call awaits a
\* collaborator; no user's directory public key is paired with a secret key
\* stored or backed up under a different user.
C35_SetupWritesUnderOneUser ==
    /\ [][SetupStep => WritesOnlyUnder(call.user)]_vars
    /\ [](\A u, v \in Users : u # v => ~CrossPaired(u, v))

\* The step decrypts a listed message of sender u with the cached key, or
\* encrypts field r to recipient u with the cached key.
UsesCachedKey(u) ==
    /\ publicKeyCache[u] # Null
    /\ call' # call
    /\ \/ /\ call.op = "listMessages"
          /\ call.pc = "listMessages"
          /\ call'.error = "none"
          /\ e2eEnabled /\ keyPair # Null /\ currentUserId # NoUser
          /\ \E i \in 1..Len(messages) :
                /\ messages[i].conversationId = call.conversationId
                /\ messages[i].senderId = u
       \/ /\ call.op = "sendMessage"
          /\ call.pc = "getConversation"
          /\ call'.pc = "sendMessage"
          /\ getConversation(call.conversationId) # Null
          /\ getConversation(call.conversationId).participants \ {currentUserId} = {u}

\* C36: cache coherence: whenever the service uses a cached public key for a
\* user (to encrypt field r in sendMessage or to decrypt in listMessages), that
\* key is the public key the Key Directory holds for that user at that moment,
\* also after the active user rotated its keys with setupEncryption.
C36_CachedKeyIsTheDirectorysKey ==
    [][\A u \in Users :
          UsesCachedKey(u)
              => /\ publicKeys[u] # Null
                 /\ publicKeyCache[u] = base64ToBytes(publicKeys[u])]_vars

\* The Key Directory stores public keys and backups.
StoresKeysAndBackups == Has("storePublicKey") /\ Has("storeKeyBackup")

\* The active user's key pair is in memory, in the Local Key Store and backed up.
KeysInPlace ==
    /\ currentUserId # NoUser
    /\ keyPair # Null
    /\ keyStorage[currentUserId] # Null
    /\ keyBackups[currentUserId] # Null

\* C37: after setupEncryption or restoreEncryption returns true against a Key
\* Directory that stores public keys and backups, the keys are in place; they stay
\* in place until setCurrentUser switches to another user or the Local Key Store
\* is cleared; and while they are in place getEncryptionStatus returns ready and
\* isEncryptionReady is true.
C37_ReadyUntilSwitchOrCleared ==
    /\ []((SetupReturnedTrue \/ RestoreReturnedTrue) /\ StoresKeysAndBackups /\ ~interfered
            => KeysInPlace)
    /\ [][KeysInPlace /\ currentUserId' = currentUserId
                      /\ keyStorage'[currentUserId] # Null => KeysInPlace']_vars
    /\ [](KeysInPlace
            => /\ isEncryptionReady
               /\ StatusReturned /\ ~interfered => call.result = "ready")

\* The status is asked after a setup and is ready.
C37_Witness ==
    /\ StatusReturned
    /\ ~interfered
    /\ call.result = "ready"
    /\ e2eEnabled
    /\ StoresKeysAndBackups
    /\ KeysInPlace
    /\ keyPairFor = currentUserId

\* C38: messages delivered through onNewMessage reach the subscriber's callback
\* in the order the adapter emitted them, however long each message's lookup of
\* the sender's public key takes.
C38_CallbacksInEmissionOrder ==
    \A i, j \in 1..Len(callbacks) : i < j => callbacks[i].n < callbacks[j].n

\* C39: once the Unsubscribe returned by onNewMessage has been called the
\* subscriber's callback is not invoked again, also for messages that were
\* emitted before and are still being decrypted.
C39_NoCallbackAfterUnsubscribe ==
    [][subscription = "unsubscribed" => callbacks' = callbacks]_vars

====
